---- MODULE Spec2Model ----
(***************************************************************************)
(* Power-flow tree generation: the connection-graph builder, the upstream  *)
(* and downstream walkers, the consolidator, the loop-group detector, the  *)
(* coverage completer, the span-based upstream layout with its repair      *)
(* passes, node/edge generation, and the request-level tree cache.         *)
(*                                                                         *)
(* Equipment ids and names are strings; a connection record carries one    *)
(* origin, one destination and a source label, and the name/type strings   *)
(* of a record are those of the catalogue below (a record always carries   *)
(* the name and type of the equipment it links).  Coordinates are integers *)
(* in units of 1/Unit pixel so that the halves and thirds the layout       *)
(* computes stay exact; `exact` records that no division lost a remainder. *)
(***************************************************************************)
EXTENDS Integers, Sequences, FiniteSets, TLC

(***************************************************************************)
(* Bounds of the model.                                                    *)
(***************************************************************************)
\* largest number of connection records in an input drawn from Cand
MaxConn == 5
\* longest single-file feeder chain offered as an input
MaxChain == 11
\* number of concurrent tree requests in the cache specification
MaxReq == 2

(***************************************************************************)
(* Program constants.                                                      *)
(***************************************************************************)
Unit == 3 * 16
maxTraversalLevel == 10
nodeWidth == 180 * Unit
nodeHeight == 70 * Unit
minimumNodeSpacing == 200 * Unit
nodeCenterSpacing == nodeWidth + minimumNodeSpacing
levelSpacing == 150 * Unit
localBranchOffset == 120 * Unit
branchSpreadIncrement == 60 * Unit
centerX == 400 * Unit
centerY == 300 * Unit
lateralUpsOffset == nodeWidth \div 2 + 100 * Unit
upsMdsPairOffset == nodeWidth \div 2 + 100 * Unit
collisionPadding == 12 * Unit

(***************************************************************************)
(* Sequence helpers.                                                       *)
(***************************************************************************)
Range(s) == {s[i] : i \in 1..Len(s)}

Includes(s, x) == \E i \in 1..Len(s) : s[i] = x

PushNew(s, x) == IF Includes(s, x) THEN s ELSE Append(s, x)

\* In applied to the value of v, which is computed once
Bind(v, In(_)) == CHOOSE r \in {In(x) : x \in {v}} : TRUE

\* Op applied at 1, 2, ..., n from base; every intermediate result is bound to a value
\* before the next step starts
Iterate(Op(_, _), base, n) ==
  LET RECURSIVE Go(_, _)
      Go(i, acc) == IF i > n THEN acc
                    ELSE CHOOSE r \in {Go(i + 1, next) : next \in {Op(acc, i)}} : TRUE
  IN Go(1, base)

\* Array.prototype.reduce / forEach with an accumulator
FoldLeft(Op(_, _), base, s) == Iterate(LAMBDA acc, i : Op(acc, s[i]), base, Len(s))

Concat(ss) == FoldLeft(LAMBDA acc, t : acc \o t, <<>>, ss)

Reverse(s) == [i \in 1..Len(s) |-> s[Len(s) + 1 - i]]

\* index of the first element satisfying Test, 0 when none does (Array.find)
FindIndex(s, Test(_)) ==
  IF \E i \in 1..Len(s) : Test(s[i])
    THEN CHOOSE i \in 1..Len(s) : Test(s[i]) /\ \A j \in 1..(i - 1) : ~Test(s[j])
    ELSE 0

Filter(s, Test(_)) == SelectSeq(s, Test)

\* stable insertion sort by a strict order Less (Array.prototype.sort is stable)
SortBy(s, Less(_, _)) ==
  LET Ins(t, x) ==
        LET k == FindIndex(t, LAMBDA h : Less(x, h))
            p == IF k = 0 THEN Len(t) + 1 ELSE k
        IN SubSeq(t, 1, p - 1) \o <<x>> \o SubSeq(t, p, Len(t))
  IN FoldLeft(Ins, <<>>, s)

(***************************************************************************)
(* The equipment catalogue: name and type string of every equipment id.    *)
(***************************************************************************)
NoId == ""

ChainIds == <<"P01", "P02", "P03", "P04", "P05", "P06", "P07",
              "P08", "P09", "P10", "P11", "P12", "P13", "P14">>

EqName(id) ==
  CASE id = "S"  -> "PDU-1"
    [] id = "M"  -> "MDS-A"
    [] id = "U"  -> "UPS-A"
    [] id = "V"  -> "UPS-A-2"
    [] id = "T"  -> "TX-A"
    [] id = "W"  -> "TX-B"
    [] id = "C"  -> "CDS-01R-A"
    [] id = "D"  -> "CDS-01R-B"
    [] id = "G"  -> "UTIL-A"
    [] OTHER     -> id

EqType(id) ==
  CASE id = "S"  -> "PDU"
    [] id = "M"  -> "MDS"
    [] id = "U"  -> "UPS"
    [] id = "V"  -> "UPS"
    [] id = "T"  -> "TX"
    [] id = "W"  -> "TX"
    [] id = "C"  -> "CDS"
    [] id = "D"  -> "CDS"
    [] id = "G"  -> "UTILITY"
    [] OTHER     -> "PNL"

\* String.prototype.localeCompare on the catalogue's names: the rank of a name
NameRank(name) ==
  CASE name = "CDS-01R-A" -> 1
    [] name = "CDS-01R-A <-> CDS-01R-B" -> 2
    [] name = "CDS-01R-B" -> 3
    [] name = "MDS-A"     -> 4
    [] name = "PDU-1"     -> 25
    [] name = "TX-A"      -> 30
    [] name = "TX-B"      -> 31
    [] name = "unknown"   -> 32
    [] name = "UPS-A"     -> 33
    [] name = "UPS-A-2"   -> 34
    [] name = "UTIL-A"    -> 35
    [] OTHER -> IF \E i \in 1..Len(ChainIds) : ChainIds[i] = name
                  THEN 5 + (CHOOSE i \in 1..Len(ChainIds) : ChainIds[i] = name)
                  ELSE 0

NameLess(a, b) == NameRank(a) < NameRank(b)

\* type.includes('UPS') / type.toUpperCase().includes('UPS')
TypeIsUps(type) == type = "UPS"
\* type.includes('MDS')
TypeIsMds(type) == type = "MDS"
\* type.includes('CUPP')
TypeIsCupp(type) == type = "CUPP"
\* type.includes('TX')
TypeIsTx(type) == type = "TX"
\* type.includes('UTILITY') || type.includes('GEN') || type.includes('MV-SWGR')
TypeIsConvergence(type) == type \in {"UTILITY", "GEN", "MV-SWGR"}
\* name.toLowerCase().includes('ups')
NameHasUps(name) == name \in {"UPS-A", "UPS-A-2"}
\* name.toLowerCase().includes('ats')
NameHasAts(name) == FALSE
\* name.toLowerCase().match(/cds[^a-z]*(\d+)[^a-z]*r/): the ring number, "" if no match
RingNumber(name) == IF name \in {"CDS-01R-A", "CDS-01R-B"} THEN "01" ELSE ""
\* name.endsWith('-2') && name.includes('UPS') && name.length > 3
NameIsBypassUps(name) == name = "UPS-A-2"

isUPSEquipment(type, name) == TypeIsUps(type) \/ NameHasUps(name)

(***************************************************************************)
(* Connection records and the connection map.                              *)
(***************************************************************************)
Rec(from, to, src) == [from |-> from, to |-> to, sourceNumber |-> src]

classifyConnectionType(connection) ==
  IF TypeIsUps(EqType(connection.from)) /\ connection.sourceNumber = "S2" THEN "bypass"
  ELSE IF TypeIsUps(EqType(connection.from)) /\ TypeIsCupp(EqType(connection.to)) THEN "bypass"
  ELSE IF connection.sourceNumber = "S2" THEN "redundant"
  ELSE "normal"

\* the ids of the map, in insertion order
MapKeys(connections) ==
  FoldLeft(LAMBDA acc, c : PushNew(PushNew(acc, c.from), c.to), <<>>, connections)

Relation(id, connection) ==
  [id |-> id, name |-> EqName(id), type |-> EqType(id),
   sourceNumber |-> IF connection.sourceNumber = "" THEN "S1" ELSE connection.sourceNumber,
   connectionType |-> classifyConnectionType(connection)]

buildConnectionMap(connections) ==
  [id \in Range(MapKeys(connections)) |->
     [upstream   |-> LET hits == SelectSeq(connections, LAMBDA c : c.to = id)
                     IN [i \in 1..Len(hits) |-> Relation(hits[i].from, hits[i])],
      downstream |-> LET hits == SelectSeq(connections, LAMBDA c : c.from = id)
                     IN [i \in 1..Len(hits) |-> Relation(hits[i].to, hits[i])]]]

\* the entry of the selected equipment, or the empty record when it is in no record
findEquipmentInfo(equipmentId, connections) ==
  IF \E i \in 1..Len(connections) :
       connections[i].from = equipmentId \/ connections[i].to = equipmentId
    THEN [id |-> equipmentId, name |-> EqName(equipmentId), type |-> EqType(equipmentId),
          level |-> 0, parentId |-> NoId, sourceNumber |-> "", sources |-> <<>>,
          parentIds |-> <<>>, path |-> <<>>, branch |-> "", connectionType |-> "",
          alternateParents |-> <<>>, isLoopGroup |-> FALSE, members |-> <<>>]
    ELSE [id |-> NoId]

(***************************************************************************)
(* The walkers.                                                            *)
(***************************************************************************)
Relations(connectionMap, id, dir) ==
  IF id \in DOMAIN connectionMap
    THEN (IF dir = "up" THEN connectionMap[id].upstream ELSE connectionMap[id].downstream)
    ELSE <<>>

RECURSIVE traverse(_, _, _, _, _, _, _)
traverse(dir, equipmentId, connectionMap, visited, level, path, branch) ==
  IF level > maxTraversalLevel THEN <<>>
  ELSE
    LET rels == Relations(connectionMap, equipmentId, dir)
        isBypassPath == Len(path) > 0
                        /\ \E i \in 1..Len(rels) : rels[i].connectionType = "bypass"
    IN IF equipmentId \in visited /\ ~isBypassPath THEN <<>>
       ELSE
         LET currentPath == Append(path, equipmentId)
             Visit(r) ==
               LET currentBranch == IF dir = "down" THEN ""
                                    ELSE IF branch # "" THEN branch ELSE r.sourceNumber
                   newVisited == IF r.connectionType = "bypass"
                                   THEN visited ELSE visited \cup {equipmentId}
               IN <<[id |-> r.id, name |-> r.name, type |-> r.type, level |-> level,
                     parentId |-> equipmentId, sourceNumber |-> r.sourceNumber,
                     sources |-> <<r.sourceNumber>>, parentIds |-> <<equipmentId>>,
                     path |-> currentPath, branch |-> currentBranch,
                     connectionType |-> r.connectionType,
                     alternateParents |-> <<>>, isLoopGroup |-> FALSE, members |-> <<>>]>>
                  \o traverse(dir, r.id, connectionMap, newVisited, level + 1,
                              currentPath, currentBranch)
         IN Concat([i \in 1..Len(rels) |-> Visit(rels[i])])

traverseUpstream(equipmentId, connectionMap) ==
  traverse("up", equipmentId, connectionMap, {}, 1, <<>>, "")

traverseDownstream(equipmentId, connectionMap) ==
  traverse("down", equipmentId, connectionMap, {}, 1, <<>>, "")

(***************************************************************************)
(* The consolidator.                                                       *)
(***************************************************************************)
IndexOfId(list, id) == FindIndex(list, LAMBDA e : e.id = id)

\* a || b || c on strings, "" standing for undefined
Or2(a, b) == IF a # "" THEN a ELSE b
Or3(a, b, c) == Or2(a, Or2(b, c))

resolveBranchFromPath(eq, connectionMap) ==
  IF Len(eq.path) = 0 THEN Or2(eq.branch, eq.sourceNumber)
  ELSE
    (CHOOSE bound \in {
      (CHOOSE bound \in {
        IF k > 0 /\ ups[k].sourceNumber = "S2" THEN "S2"
        ELSE IF k > 0 /\ ups[k].sourceNumber = "S1" THEN "S1"
        ELSE Or2(eq.branch, eq.sourceNumber)
        : k \in {FindIndex(ups, LAMBDA u : u.id = eq.id)}} : TRUE)
      : ups \in {Relations(connectionMap, eq.path[Len(eq.path)], "up")}} : TRUE)

AlternateParent(eq) ==
  [id |-> eq.parentId, sourceNumber |-> Or2(eq.sourceNumber, "S1"),
   connectionType |-> eq.connectionType]

\* mergeExisting without the convergence rule: a utility with both sources is merged like
\* any other equipment
mergeExistingByLevel(existing, eq, branchFromPath) ==
  LET branchCandidate == Or3(branchFromPath, eq.branch, eq.sourceNumber)
      sources == IF eq.sourceNumber # "" THEN PushNew(existing.sources, eq.sourceNumber)
                 ELSE existing.sources
      parentIds == IF eq.parentId # NoId THEN PushNew(existing.parentIds, eq.parentId)
                   ELSE existing.parentIds
      alternateParents ==
        IF eq.connectionType # "" /\ eq.connectionType # "normal" /\ eq.parentId # NoId
             /\ ~\E i \in 1..Len(existing.alternateParents) :
                   /\ existing.alternateParents[i].id = eq.parentId
                   /\ existing.alternateParents[i].connectionType = eq.connectionType
          THEN Append(existing.alternateParents, AlternateParent(eq))
          ELSE existing.alternateParents
      isCloserPath == eq.level < existing.level
      branchConflict == branchCandidate # "" /\ existing.branch # ""
                        /\ branchCandidate # existing.branch
  IN (CHOOSE bound \in {
       IF isCloserPath
               \/ (branchConflict /\ branchCandidate = "S2" /\ eq.level = existing.level)
         THEN [merged EXCEPT
                 !.level = eq.level, !.parentId = eq.parentId, !.path = eq.path,
                 !.sourceNumber = Or2(eq.sourceNumber, existing.sourceNumber),
                 !.branch = Or2(branchCandidate, existing.branch),
                 !.connectionType = Or2(eq.connectionType, existing.connectionType)]
       ELSE IF existing.branch = "" /\ branchCandidate # ""
         THEN [merged EXCEPT !.branch = branchCandidate]
       ELSE IF branchCandidate = "S1"
         THEN [merged EXCEPT !.branch = "S1"]
       ELSE merged
       : merged \in {[existing EXCEPT !.sources = sources, !.parentIds = parentIds,
                           !.alternateParents = alternateParents]}} : TRUE)

\* the else branch of the deduplication loop: eq merged into the existing entry
mergeExisting(existing, eq, branchFromPath) ==
  LET branchCandidate == Or3(branchFromPath, eq.branch, eq.sourceNumber)
      sources == IF eq.sourceNumber # "" THEN PushNew(existing.sources, eq.sourceNumber)
                 ELSE existing.sources
      parentIds == IF eq.parentId # NoId THEN PushNew(existing.parentIds, eq.parentId)
                   ELSE existing.parentIds
      alternateParents ==
        IF eq.connectionType # "" /\ eq.connectionType # "normal" /\ eq.parentId # NoId
             /\ ~\E i \in 1..Len(existing.alternateParents) :
                   /\ existing.alternateParents[i].id = eq.parentId
                   /\ existing.alternateParents[i].connectionType = eq.connectionType
          THEN Append(existing.alternateParents, AlternateParent(eq))
          ELSE existing.alternateParents
      isCloserPath == eq.level < existing.level
      branchConflict == branchCandidate # "" /\ existing.branch # ""
                        /\ branchCandidate # existing.branch
      isUtilityOrGenerator == TypeIsConvergence(eq.type)
  IN (CHOOSE bound \in {
       IF isUtilityOrGenerator /\ Includes(merged.sources, "S1")
            /\ Includes(merged.sources, "S2")
         THEN [merged EXCEPT !.branch = "S1", !.sourceNumber = "S1"]
       ELSE IF isCloserPath
               \/ (branchConflict /\ branchCandidate = "S2" /\ eq.level = existing.level)
         THEN [merged EXCEPT
                 !.level = eq.level, !.parentId = eq.parentId, !.path = eq.path,
                 !.sourceNumber = Or2(eq.sourceNumber, existing.sourceNumber),
                 !.branch = Or2(branchCandidate, existing.branch),
                 !.connectionType = Or2(eq.connectionType, existing.connectionType)]
       ELSE IF existing.branch = "" /\ branchCandidate # ""
         THEN [merged EXCEPT !.branch = branchCandidate]
       ELSE IF branchCandidate = "S1"
         THEN [merged EXCEPT !.branch = "S1"]
       ELSE merged
       : merged \in {[existing EXCEPT !.sources = sources, !.parentIds = parentIds,
                           !.alternateParents = alternateParents]}} : TRUE)

\* one iteration of the deduplication loop: eq merged into equipmentById
mergeEquipment(equipmentById, eq, connectionMap) ==
  (CHOOSE bound \in {
    LET branchFromPath == found[1]
        k == found[2]
    IN IF k = 0
         THEN Append(equipmentById,
                [eq EXCEPT
                   !.sources = IF eq.sourceNumber # "" THEN <<eq.sourceNumber>> ELSE <<"S1">>,
                   !.parentIds = IF eq.parentId # NoId THEN <<eq.parentId>> ELSE <<>>,
                   !.alternateParents =
                      IF eq.connectionType # "" /\ eq.connectionType # "normal"
                        THEN <<AlternateParent(eq)>> ELSE <<>>,
                   !.branch = Or2(branchFromPath, eq.branch)])
         ELSE [equipmentById EXCEPT ![k] = mergeExisting(equipmentById[k], eq, branchFromPath)]
    : found \in {<<resolveBranchFromPath(eq, connectionMap), IndexOfId(equipmentById, eq.id)>>}} : TRUE)

deduplicate(equipment, connectionMap) ==
  FoldLeft(LAMBDA acc, eq : mergeEquipment(acc, eq, connectionMap), <<>>, equipment)

(***************************************************************************)
(* The loop-group detector.                                                *)
(***************************************************************************)
\* the group key of an equipment, "" when it matches no loop pattern
groupKeyOf(eq) ==
  IF NameHasAts(eq.name) /\ Len(eq.sources) > 1 THEN eq.name \o "-DUAL-SOURCE"
  ELSE IF RingNumber(eq.name) # "" THEN "CDS-" \o RingNumber(eq.name) \o "R-RING"
  ELSE ""

\* the detected groups, in order of first appearance
detectLoopGroups(equipment) ==
  LET Add(groups, eq) ==
        LET key == groupKeyOf(eq)
            k == FindIndex(groups, LAMBDA g : g.groupKey = key)
            AddSources(acc) == FoldLeft(PushNew, acc, eq.sources)
        IN IF key = "" THEN groups
           ELSE IF k = 0
             THEN Append(groups, [groupKey |-> key, equipment |-> <<eq>>,
                                  sources |-> AddSources(<<>>)])
             ELSE [groups EXCEPT ![k].equipment = Append(@, eq),
                                 ![k].sources = AddSources(@)]
  IN FoldLeft(Add, <<>>, equipment)

\* branch || sourceNumber || first S1/S2 of sources
memberBranch(eq) ==
  LET k == FindIndex(eq.sources, LAMBDA x : x = "S1" \/ x = "S2")
  IN Or3(eq.branch, eq.sourceNumber, IF k > 0 THEN eq.sources[k] ELSE "")

\* closestToSelected with the search left out: the first member in name order
closestToSelectedFirst(members) == members[1]

closestToSelected(members) ==
  LET Closer(best, candidate) ==
        IF candidate.level < best.level THEN candidate
        ELSE IF candidate.level = best.level
                /\ memberBranch(candidate) = "S2" /\ memberBranch(best) # "S2"
          THEN candidate
        ELSE best
  IN FoldLeft(Closer, members[1], members)

\* the representative of a group whose members, sorted by name, are sortedEquipment and
\* whose member closest to the selected equipment is closest
loopGroupRecord(group, connectionMap, sortedEquipment, closest) ==
  LET startEquipment == sortedEquipment[1]
      endEquipment == sortedEquipment[Len(sortedEquipment)]
      loopParentId == IF closest.parentId # NoId THEN closest.parentId
                      ELSE IF Len(closest.parentIds) > 0 THEN closest.parentIds[1]
                      ELSE NoId
      Feeds(ups) ==
        IF loopParentId = NoId THEN 0
        ELSE FindIndex(ups, LAMBDA u :
               \E i \in 1..Len(sortedEquipment) : sortedEquipment[i].id = u.id)
      parentRelationBranch ==
        (CHOOSE bound \in {
          (CHOOSE bound \in {IF k > 0 THEN ups[k].sourceNumber ELSE "" : k \in {Feeds(ups)}} : TRUE)
          : ups \in {Relations(connectionMap, loopParentId, "up")}} : TRUE)
      loopBranch == Or3(memberBranch(closest),
                        parentRelationBranch,
                        IF Includes(group.sources, "S2") /\ ~Includes(group.sources, "S1")
                          THEN "S2"
                        ELSE IF Includes(group.sources, "S1") THEN "S1" ELSE "")
  IN [id |-> "loop-" \o group.groupKey,
      name |-> startEquipment.name \o " <-> " \o endEquipment.name,
      type |-> "RING BUS", level |-> closest.level, parentId |-> loopParentId,
      sourceNumber |-> "", sources |-> group.sources,
      parentIds |-> IF loopParentId # NoId THEN <<loopParentId>> ELSE <<>>,
      path |-> <<>>, branch |-> loopBranch, connectionType |-> "",
      alternateParents |-> <<>>, isLoopGroup |-> TRUE,
      members |-> [i \in 1..Len(sortedEquipment) |->
                     [sortedEquipment[i] EXCEPT !.members = <<>>]]]

loopGroupRep(group, connectionMap) ==
  (CHOOSE bound \in {
         loopGroupRecord(group, connectionMap, sortedEquipment,
                         closestToSelected(sortedEquipment))
    : sortedEquipment \in {SortBy(group.equipment, LAMBDA a, b : NameLess(a.name, b.name))}} : TRUE)

\* "Fix levels after parent rewiring": one in-place pass in list order
fixLevels(processedEquipment) ==
  LET Fix(list, i) ==
        LET eq == list[i]
            \* equipmentMap.set keeps the last entry of an id
            hits == {j \in 1..Len(list) : list[j].id = eq.parentId}
        IN IF eq.parentId # NoId /\ hits # {}
             THEN [list EXCEPT ![i].level =
                     list[CHOOSE j \in hits : \A h \in hits : h <= j].level + 1]
             ELSE list
  IN Iterate(Fix, processedEquipment, Len(processedEquipment))

\* replacementMap.get(id): the representative's id, NoId when id is in no group
\* (a later group overwrites an earlier one)
replacementOf(groups, reps, id) ==
  LET hits == {i \in 1..Len(groups) :
                 \E j \in 1..Len(groups[i].equipment) : groups[i].equipment[j].id = id}
  IN IF hits = {} THEN NoId
     ELSE reps[CHOOSE i \in hits : \A h \in hits : h <= i].id

\* the parent rewiring of one entry
rewire(groups, reps, eq) ==
  [eq EXCEPT
     !.parentId = IF eq.parentId # NoId
                    THEN (CHOOSE bound \in {
                           IF rep # NoId THEN rep ELSE eq.parentId
                           : rep \in {replacementOf(groups, reps, eq.parentId)}} : TRUE)
                    ELSE eq.parentId,
     !.parentIds = [j \in 1..Len(eq.parentIds) |->
                      (CHOOSE bound \in {
                        IF rep # NoId THEN rep ELSE eq.parentIds[j]
                        : rep \in {replacementOf(groups, reps, eq.parentIds[j])}} : TRUE)]]

processLoopGroups(equipment, connectionMap) ==
  (CHOOSE bound \in {
    (CHOOSE bound \in {
      (CHOOSE bound \in {
        fixLevels([i \in 1..Len(processedEquipment) |->
                     rewire(groups, reps, processedEquipment[i])])
        : processedEquipment \in {reps \o SelectSeq(equipment, LAMBDA eq : replacementOf(groups, reps, eq.id) = NoId)}} : TRUE)
      : reps \in {[i \in 1..Len(groups) |-> loopGroupRep(groups[i], connectionMap)]}} : TRUE)
    : groups \in {SelectSeq(detectLoopGroups(equipment), LAMBDA g : Len(g.equipment) > 1)}} : TRUE)

processEquipmentForVisualization(equipment, connectionMap) ==
  (CHOOSE bound \in {
    processLoopGroups(consolidated, connectionMap)
    : consolidated \in {deduplicate(equipment, connectionMap)}} : TRUE)

(***************************************************************************)
(* The coverage completer.                                                 *)
(***************************************************************************)
\* coverRelation with a missing feeder added as an entry that names no parent
coverRelationOrphan(upstream, id, level, parent) ==
  IF \E j \in 1..Len(upstream) : upstream[j].id = parent.id THEN upstream
  ELSE Append(upstream,
         [id |-> parent.id, name |-> parent.name, type |-> parent.type,
          level |-> level + 1, parentId |-> NoId, sourceNumber |-> parent.sourceNumber,
          sources |-> <<parent.sourceNumber>>, parentIds |-> <<>>, path |-> <<id>>,
          branch |-> parent.sourceNumber, connectionType |-> parent.connectionType,
          alternateParents |-> <<>>, isLoopGroup |-> FALSE, members |-> <<>>])

\* one upstream relation of the dequeued id applied to the list
coverRelation(upstream, id, level, parent) ==
  LET k == LET hits == {j \in 1..Len(upstream) : upstream[j].id = parent.id}
           IN IF hits = {} THEN 0 ELSE CHOOSE j \in hits : \A h \in hits : h <= j
  IN IF k = 0
       THEN Append(upstream,
              [id |-> parent.id, name |-> parent.name, type |-> parent.type,
               level |-> level + 1, parentId |-> id, sourceNumber |-> parent.sourceNumber,
               sources |-> <<parent.sourceNumber>>, parentIds |-> <<id>>, path |-> <<id>>,
               branch |-> parent.sourceNumber, connectionType |-> parent.connectionType,
               alternateParents |-> <<>>, isLoopGroup |-> FALSE, members |-> <<>>])
       ELSE [upstream EXCEPT
               ![k].parentIds = PushNew(@, id),
               ![k].sources = PushNew(@, parent.sourceNumber),
               ![k].parentId = IF @ = NoId THEN id ELSE @,
               ![k].branch = IF @ = "" THEN parent.sourceNumber ELSE @]

\* ensureCompleteUpstreamCoverage with the walk left out: the list as the walker and the
\* consolidation produced it
skipUpstreamCoverage(selectedEquipment, upstream, connectionMap) == upstream

\* the while loop of ensureCompleteUpstreamCoverage: its queue, visited set and list
\* after the turns
coverageWalk(selectedEquipment, upstream, connectionMap) ==
  LET \* one turn of the while loop; the queue never holds more than one entry per relation
      \* besides the selected equipment, which bounds the number of turns
      Turn(st, n) ==
        IF st.queue = <<>> THEN st
        ELSE
          LET id == Head(st.queue).id
              level == Head(st.queue).level
              ups == Relations(connectionMap, id, "up")
          IN IF id \in st.visited THEN [st EXCEPT !.queue = Tail(st.queue)]
             ELSE [queue |-> Tail(st.queue) \o [i \in 1..Len(ups) |->
                                                  [id |-> ups[i].id, level |-> level + 1]],
                   visited |-> st.visited \cup {id},
                   list |-> FoldLeft(LAMBDA acc, parent : coverRelation(acc, id, level, parent),
                                     st.list, ups)]
  IN Iterate(Turn,
             [queue |-> <<[id |-> selectedEquipment.id, level |-> selectedEquipment.level]>>,
              visited |-> {}, list |-> upstream],
             1 + Cardinality(UNION {{<<id, i>> : i \in 1..Len(connectionMap[id].upstream)} :
                                      id \in DOMAIN connectionMap}))

ensureCompleteUpstreamCoverage(selectedEquipment, upstream, connectionMap) ==
  coverageWalk(selectedEquipment, upstream, connectionMap).list

(***************************************************************************)
(* Layout classification.                                                  *)
(***************************************************************************)
determineBranch(equipment) ==
  IF equipment.branch \in {"S1", "S2"} THEN equipment.branch
  ELSE IF equipment.sourceNumber \in {"S1", "S2"} THEN equipment.sourceNumber
  ELSE IF Includes(equipment.sources, "S2") THEN "S2"
  ELSE "S1"

isLateralConnection(equipment, connectionMap) ==
  /\ TypeIsUps(equipment.type)
  /\ equipment.parentId # NoId
  /\ equipment.id \in DOMAIN connectionMap
  /\ \E i \in 1..Len(connectionMap[equipment.id].downstream) :
        connectionMap[equipment.id].downstream[i].id = equipment.parentId
  /\ \E i \in 1..Len(connectionMap[equipment.id].upstream) :
        connectionMap[equipment.id].upstream[i].id = equipment.parentId

layoutInfoOf(eq, connectionMap) ==
  LET isUps == TypeIsUps(eq.type)
      ups == Relations(connectionMap, eq.id, "up")
      k == IF eq.parentId = NoId THEN 0 ELSE FindIndex(ups, LAMBDA r : r.id = eq.parentId)
      parentIsMds == k > 0 /\ TypeIsMds(ups[k].type)
      isLateral == isLateralConnection(eq, connectionMap) \/ (isUps /\ parentIsMds)
      branch == determineBranch(eq)
  IN [id |-> eq.id, name |-> eq.name, type |-> eq.type, isLoopGroup |-> eq.isLoopGroup,
      branch |-> branch, level |-> eq.level, isLateral |-> isLateral,
      parentId |-> eq.parentId,
      direction |-> IF isLateral /\ eq.parentId # NoId
                      THEN (IF isUps THEN "left" ELSE IF branch = "S2" THEN "right" ELSE "left")
                      ELSE ""]

classifyEquipmentForLayout(equipment, connectionMap) ==
  [i \in 1..Len(equipment) |-> layoutInfoOf(equipment[i], connectionMap)]

\* layoutInfoMap of calculateUpstreamPositions: the infos keyed by id, in insertion
\* order, with an entry for the selected equipment added when it has none
buildLayoutInfoMap(selectedEquipment, layoutInfo) ==
  LET Put(acc, info) ==
        LET k == IndexOfId(acc, info.id)
        IN IF k = 0 THEN Append(acc, info) ELSE [acc EXCEPT ![k] = info]
      map == FoldLeft(Put, <<>>, layoutInfo)
  IN IF IndexOfId(map, selectedEquipment.id) # 0 THEN map
     ELSE Append(map,
            [id |-> selectedEquipment.id, name |-> selectedEquipment.name,
             type |-> selectedEquipment.type, isLoopGroup |-> FALSE, branch |-> "S1",
             level |-> selectedEquipment.level, isLateral |-> FALSE, parentId |-> NoId,
             direction |-> ""])

InfoAt(layoutInfoMap, id) == layoutInfoMap[IndexOfId(layoutInfoMap, id)]
HasInfo(layoutInfoMap, id) == IndexOfId(layoutInfoMap, id) # 0

\* categorizeByType on the catalogue's type strings
categorizeByType(type) ==
  IF type = "UTILITY" THEN "UTILITY"
  ELSE IF TypeIsMds(type) \/ TypeIsUps(type) THEN "DISTRIBUTION"
  ELSE IF TypeIsTx(type) THEN "TRANSFORMER"
  ELSE IF type = "GEN" THEN "GENERATOR"
  ELSE "END_EQUIPMENT"

\* the keys of categoryVerticalOffsets
categoryVerticalOffsetKeys ==
  {"SELECTED", "PDU", "ATS", "RING_BUS", "CDS", "UPS_WITH_MDS", "UPS", "MDS", "SWGR",
   "DISTRIBUTION", "GEN", "GENERATOR", "TX", "TRANSFORMER", "UTILITY", "SUBSTATION",
   "END_EQUIPMENT"}

getTypeAlignmentKey(info, layoutInfoMap) ==
  LET prefix == info.type
      category == categorizeByType(info.type)
      upsKey == IF info.parentId # NoId /\ HasInfo(layoutInfoMap, info.parentId)
                     /\ TypeIsMds(InfoAt(layoutInfoMap, info.parentId).type)
                  THEN "UPS_WITH_" \o InfoAt(layoutInfoMap, info.parentId).type
                  ELSE "UPS"
  IN IF info.isLoopGroup THEN "RING_BUS"
     ELSE IF category = "DISTRIBUTION"
       THEN (IF TypeIsUps(prefix) THEN upsKey ELSE IF TypeIsMds(prefix) THEN "MDS"
             ELSE "DISTRIBUTION")
     ELSE IF category = "GENERATOR" THEN "GEN"
     ELSE IF category = "TRANSFORMER" THEN "TX"
     ELSE IF category = "UTILITY" THEN "UTILITY"
     ELSE IF prefix \in categoryVerticalOffsetKeys THEN prefix
     ELSE category

(***************************************************************************)
(* The placement tree.                                                     *)
(***************************************************************************)
\* placementWalk without the visited set: an id is expanded every time it leaves the queue
placementWalkRevisiting(selected, layoutInfoMap, connectionMap) ==
  LET ids == {layoutInfoMap[i].id : i \in 1..Len(layoutInfoMap)}
      nodes0 == [id \in ids |->
                   [parentId |-> InfoAt(layoutInfoMap, id).parentId,
                    s1 |-> <<>>, s2 |-> <<>>, laterals |-> <<>>]]
      \* connections.upstream.forEach of the node taken from the queue
      Attach(id, visited, st, relation) ==
        LET parent == relation.id
            parentInfo == InfoAt(layoutInfoMap, parent)
            ns1 == [st.nodes EXCEPT ![parent].parentId = id]
            ns2 == IF parentInfo.isLateral
                     THEN [ns1 EXCEPT ![id].laterals = Append(@, parent)]
                   ELSE IF parentInfo.branch = "S2"
                     THEN [ns1 EXCEPT ![id].s2 = Append(@, parent)]
                   ELSE [ns1 EXCEPT ![id].s1 = Append(@, parent)]
        IN IF parent \notin ids THEN st
           ELSE [st EXCEPT !.nodes = ns2,
                           !.queue = Append(@, parent)]
      \* one turn of the while loop; a turn that finds the queue empty changes nothing
      Turn(st, n) ==
        IF st.queue = <<>> THEN st
        ELSE
          LET id == Head(st.queue)
              rest == [st EXCEPT !.queue = Tail(@), !.visited = @ \cup {id}]
          IN IF id \notin ids \/ id \notin DOMAIN connectionMap THEN rest
             ELSE FoldLeft(LAMBDA acc, relation : Attach(id, rest.visited, acc, relation),
                           rest, connectionMap[id].upstream)
  IN Iterate(Turn, [queue |-> <<selected.id>>, visited |-> {}, nodes |-> nodes0],
             1 + Cardinality(UNION {{<<id, i>> : i \in 1..Len(connectionMap[id].upstream)} :
                                      id \in DOMAIN connectionMap}))

\* the while loop of buildPlacementTree: its queue, visited set and nodes after the turns
placementWalk(selected, layoutInfoMap, connectionMap) ==
  LET ids == {layoutInfoMap[i].id : i \in 1..Len(layoutInfoMap)}
      nodes0 == [id \in ids |->
                   [parentId |-> InfoAt(layoutInfoMap, id).parentId,
                    s1 |-> <<>>, s2 |-> <<>>, laterals |-> <<>>]]
      \* connections.upstream.forEach of the node taken from the queue
      Attach(id, visited, st, relation) ==
        LET parent == relation.id
            parentInfo == InfoAt(layoutInfoMap, parent)
            ns1 == [st.nodes EXCEPT ![parent].parentId = id]
            ns2 == IF parentInfo.isLateral
                     THEN [ns1 EXCEPT ![id].laterals = Append(@, parent)]
                   ELSE IF parentInfo.branch = "S2"
                     THEN [ns1 EXCEPT ![id].s2 = Append(@, parent)]
                   ELSE [ns1 EXCEPT ![id].s1 = Append(@, parent)]
        IN IF parent \notin ids THEN st
           ELSE [st EXCEPT !.nodes = ns2,
                           !.queue = IF parent \in visited THEN @ ELSE Append(@, parent)]
      \* one turn of the while loop; a turn that finds the queue empty changes nothing
      Turn(st, n) ==
        IF st.queue = <<>> THEN st
        ELSE
          LET id == Head(st.queue)
              rest == [st EXCEPT !.queue = Tail(@), !.visited = @ \cup {id}]
          IN IF id \in st.visited THEN [st EXCEPT !.queue = Tail(@)]
             ELSE IF id \notin ids \/ id \notin DOMAIN connectionMap THEN rest
             ELSE FoldLeft(LAMBDA acc, relation : Attach(id, rest.visited, acc, relation),
                           rest, connectionMap[id].upstream)
  IN Iterate(Turn, [queue |-> <<selected.id>>, visited |-> {}, nodes |-> nodes0],
             1 + Cardinality(UNION {{<<id, i>> : i \in 1..Len(connectionMap[id].upstream)} :
                                      id \in DOMAIN connectionMap}))

buildPlacementTree(selected, layoutInfoMap, connectionMap) ==
  placementWalk(selected, layoutInfoMap, connectionMap).nodes

computeRowWidthPx(nodeCount) ==
  IF nodeCount <= 1 THEN nodeWidth ELSE nodeCenterSpacing * (nodeCount - 1)

NoLevel == 0 - 1

computeLayoutMetrics(tree, layoutInfoMap) ==
  LET rowCount(level) == Cardinality({i \in 1..Len(layoutInfoMap) :
                            ~layoutInfoMap[i].isLateral /\ layoutInfoMap[i].level = level})
      counts == {rowCount(layoutInfoMap[i].level) : i \in 1..Len(layoutInfoMap)} \cup {1}
      maxRowCount == CHOOSE c \in counts : \A d \in counts : d <= c
      k == FindIndex(layoutInfoMap, LAMBDA info :
             Len(tree[info.id].s1) > 0 /\ Len(tree[info.id].s2) > 0)
  IN [maxRowWidthPx |-> computeRowWidthPx(maxRowCount), maxRowCount |-> maxRowCount,
      firstSplitLevel |-> IF k = 0 THEN NoLevel ELSE layoutInfoMap[k].level]

\* baselines.get(level) of createLevelBaselines, the selected level being 0
baselineOf(level) == centerY - level * levelSpacing

(***************************************************************************)
(* Subtree spans.                                                          *)
(***************************************************************************)
Max(a, b) == IF a >= b THEN a ELSE b
Min(a, b) == IF a <= b THEN a ELSE b
Abs(a) == IF a < 0 THEN 0 - a ELSE a

fallbackSpan == [width |-> nodeWidth, leftBias |-> nodeWidth \div 2,
                 rightBias |-> nodeWidth \div 2]

sumGroupWidth(spans) ==
  LET total == FoldLeft(LAMBDA acc, span : acc + span.width, 0, spans)
      spacing == (Len(spans) - 1) * nodeCenterSpacing
  IN IF Len(spans) = 0 THEN 0 ELSE total + spacing

SetSpan(spanMap, id, span) ==
  [k \in DOMAIN spanMap \cup {id} |-> IF k = id THEN span ELSE spanMap[k]]

\* returns [map, span, visited]: the span map after the call, the returned span, and
\* the shared visited set after the call
RECURSIVE computeSubtreeSpan(_, _, _, _, _, _)
computeSubtreeSpan(nodeId, tree, layoutInfoMap, spanMap, visited, loopGroupMemberIds) ==
  LET Ret(span, vis) == [map |-> SetSpan(spanMap, nodeId, span), span |-> span,
                         visited |-> vis]
      Child(st, childId) ==
        (CHOOSE bound \in {
                        [map |-> r.map, visited |-> r.visited,
                         spans |-> Append(st.spans, r.span)]
          : r \in {computeSubtreeSpan(childId, tree, layoutInfoMap, st.map, st.visited,
                                loopGroupMemberIds)}} : TRUE)
      Own(isLoopGroup, s1Width, s2Width) ==
        LET constrainedWidth == Max(nodeWidth, Min(nodeWidth * 3, Max(s1Width, s2Width)))
            leftBias == Max(nodeWidth \div 2, s1Width)
            rightBias == Max(nodeWidth \div 2, s2Width)
        IN IF isLoopGroup
             THEN [width |-> constrainedWidth,
                   leftBias |-> constrainedWidth \div 2,
                   rightBias |-> constrainedWidth \div 2]
             ELSE [width |-> leftBias + rightBias, leftBias |-> leftBias,
                   rightBias |-> rightBias]
      Children(ids, map, vis) ==
        FoldLeft(Child, [map |-> map, visited |-> vis, spans |-> <<>>], ids)
  IN IF nodeId \in DOMAIN spanMap
       THEN [map |-> spanMap, span |-> spanMap[nodeId], visited |-> visited]
     ELSE IF nodeId \in visited THEN Ret(fallbackSpan, visited)
     ELSE IF nodeId \notin DOMAIN tree THEN Ret(fallbackSpan, visited)
     ELSE IF nodeId \in loopGroupMemberIds
       THEN Ret([width |-> 0, leftBias |-> 0, rightBias |-> 0], visited)
     ELSE
       LET isLoopGroup == InfoAt(layoutInfoMap, nodeId).isLoopGroup
           inside == visited \cup {nodeId}
       IN IF ~isLoopGroup /\ Cardinality(inside) > 50 THEN Ret(fallbackSpan, visited)
          ELSE
            (CHOOSE bound \in {
              (CHOOSE bound \in {
                (CHOOSE bound \in {
                  [map |-> SetSpan(c2.map, nodeId, span), span |-> span,
                   visited |-> c2.visited \ {nodeId}]
                  : span \in {Own(isLoopGroup, sumGroupWidth(c1.spans), sumGroupWidth(c2.spans))}} : TRUE)
                : c2 \in {Children(tree[nodeId].s2, c1.map, c1.visited)}} : TRUE)
              : c1 \in {Children(tree[nodeId].s1, spanMap, inside)}} : TRUE)

\* the ids of the members of every loop group of the list
loopGroupMemberIdsOf(equipment) ==
  UNION {{equipment[i].members[j].id : j \in 1..Len(equipment[i].members)} :
           i \in {k \in 1..Len(equipment) : equipment[k].isLoopGroup}}

(***************************************************************************)
(* Positions: a Map<string, Position>, kept with its insertion order.      *)
(***************************************************************************)
NoPositions == [order |-> <<>>, at |-> <<>>]

HasPos(positions, id) == Includes(positions.order, id)

SetPos(positions, id, x, y) ==
  [order |-> PushNew(positions.order, id),
   at |-> [k \in DOMAIN positions.at \cup {id} |->
             IF k = id THEN [x |-> x, y |-> y] ELSE positions.at[k]]]

computeBranchOffset(nodeInfo, childLevels, metrics) ==
  IF Len(childLevels) = 0 THEN localBranchOffset
  ELSE
    LET maxChildLevel == CHOOSE l \in Range(childLevels) : \A m \in Range(childLevels) : m <= l
        depthSteps == Max(1, maxChildLevel - nodeInfo.level)
        offset == localBranchOffset + depthSteps * branchSpreadIncrement
        relativeLevel == nodeInfo.level - metrics.firstSplitLevel
        baseHalfWidth == (metrics.maxRowWidthPx * 4) \div 10
        widened == baseHalfWidth + relativeLevel * branchSpreadIncrement
    IN IF metrics.firstSplitLevel # NoLevel /\ relativeLevel >= 0
         THEN Max(offset, widened) ELSE offset

computeGroupSlots(parentCenterX, childIds, spans, direction, hasOppositeBranch, branchOffset) ==
  IF Len(childIds) = 0 THEN <<>>
  ELSE IF Len(childIds) = 1 THEN
    IF ~hasOppositeBranch THEN <<parentCenterX>>
    ELSE LET effectiveWidth == Min(spans[1].width, nodeWidth + minimumNodeSpacing)
         IN <<parentCenterX + direction * (branchOffset + effectiveWidth \div 2)>>
  ELSE
    LET groupWidth == sumGroupWidth(spans)
        start == IF ~hasOppositeBranch THEN parentCenterX - groupWidth \div 2
                 ELSE IF direction = 0 - 1 THEN parentCenterX - branchOffset - groupWidth
                 ELSE parentCenterX + branchOffset
        Slot(st, i) ==
          [slots |-> Append(st.slots, st.cursor + spans[i].leftBias),
           cursor |-> st.cursor + spans[i].width
                        + (IF i < Len(childIds) THEN minimumNodeSpacing ELSE 0)]
    IN Iterate(Slot, [slots |-> <<>>, cursor |-> start], Len(childIds)).slots

\* returns [positions, visited] after the call
RECURSIVE assignPositionsRecursive(_, _, _, _, _, _, _, _)
assignPositionsRecursive(nodeId, centerXPos, tree, layoutInfoMap, spanMap, positions, visited, metrics) ==
  IF nodeId \in visited THEN [positions |-> positions, visited |-> visited]
  ELSE IF nodeId \notin DOMAIN tree
    THEN [positions |-> positions, visited |-> visited \cup {nodeId}]
  ELSE
    LET info == InfoAt(layoutInfoMap, nodeId)
        s1 == tree[nodeId].s1
        s2 == tree[nodeId].s2
        SpanOf(childId) == IF childId \in DOMAIN spanMap THEN spanMap[childId]
                           ELSE fallbackSpan
        s1Spans == [i \in 1..Len(s1) |-> SpanOf(s1[i])]
        s2Spans == [i \in 1..Len(s2) |-> SpanOf(s2[i])]
        s1Levels == [i \in 1..Len(s1) |-> InfoAt(layoutInfoMap, s1[i]).level]
        s2Levels == [i \in 1..Len(s2) |-> InfoAt(layoutInfoMap, s2[i]).level]
        s1Slots == computeGroupSlots(centerXPos, s1, s1Spans, 0 - 1, Len(s2) > 0,
                                     computeBranchOffset(info, s1Levels, metrics))
        s2Slots == computeGroupSlots(centerXPos, s2, s2Spans, 1, Len(s1) > 0,
                                     computeBranchOffset(info, s2Levels, metrics))
        Each(ids, slots, from) ==
          Iterate(LAMBDA st, i :
                    assignPositionsRecursive(ids[i], slots[i], tree, layoutInfoMap, spanMap,
                                             st.positions, st.visited, metrics),
                  from, Len(ids))
        st0 == [positions |-> SetPos(positions, nodeId, centerXPos, baselineOf(info.level)),
                visited |-> visited \cup {nodeId}]
    IN Each(s2, s2Slots, Each(s1, s1Slots, st0))

(***************************************************************************)
(* Level normalisation.                                                    *)
(***************************************************************************)
unknownParent == "unknown"

getBranchPath(layoutInfoMap, parentId) ==
  LET RECURSIVE Trace(_, _)
      Trace(currentId, level) ==
        IF level >= 6 \/ ~HasInfo(layoutInfoMap, currentId) THEN ""
        ELSE LET currentInfo == InfoAt(layoutInfoMap, currentId)
             IN IF currentInfo.isLoopGroup THEN currentInfo.branch
                ELSE IF currentInfo.parentId = NoId THEN ""
                ELSE Trace(currentInfo.parentId, level + 1)
  IN (CHOOSE bound \in {
       IF found # "" THEN found
       ELSE IF HasInfo(layoutInfoMap, parentId) THEN InfoAt(layoutInfoMap, parentId).branch
       ELSE "S1"
       : found \in {Trace(parentId, 0)}} : TRUE)

\* the comparator of sortedBranches, as "parentA sorts before parentB"
branchGroupLess(layoutInfoMap, parentA, parentB) ==
  LET nameOf(p) == IF HasInfo(layoutInfoMap, p) THEN InfoAt(layoutInfoMap, p).name ELSE p
      directOf(p) == IF HasInfo(layoutInfoMap, p) THEN InfoAt(layoutInfoMap, p).branch ELSE "S1"
  IN (CHOOSE bound \in {
       LET branchPathA == found[1]
           branchPathB == found[2]
           directBranchA == found[3]
           directBranchB == found[4]
       IN IF branchPathA # branchPathB THEN branchPathA = "S1"
          ELSE IF directBranchA # directBranchB THEN directBranchA = "S1"
          ELSE NameLess(nameOf(parentA), nameOf(parentB))
       : found \in {<<getBranchPath(layoutInfoMap, parentA), getBranchPath(layoutInfoMap, parentB),
            directOf(parentA), directOf(parentB)>>}} : TRUE)

normalizeLevel(ids, positions, layoutInfoMap) ==
  LET groupKey(id) == IF InfoAt(layoutInfoMap, id).parentId = NoId THEN unknownParent
                      ELSE InfoAt(layoutInfoMap, id).parentId
      branchGroups == FoldLeft(LAMBDA acc, id : PushNew(acc, groupKey(id)), <<>>, ids)
      sortedBranches == SortBy(branchGroups,
                               LAMBDA a, b : branchGroupLess(layoutInfoMap, a, b))
      byName(group) == SortBy(group, LAMBDA a, b :
                          NameLess(InfoAt(layoutInfoMap, a).name, InfoAt(layoutInfoMap, b).name))
      groupOf(key, branchIsS1) ==
        Filter(ids, LAMBDA id : groupKey(id) = key
                                  /\ ((InfoAt(layoutInfoMap, id).branch = "S1") = branchIsS1))
      spacing == 380 * Unit
      Spread(orderedIds) ==
        LET totalWidth == (Len(orderedIds) - 1) * spacing
            startX == centerX - totalWidth \div 2
        IN Iterate(LAMBDA pos, idx :
                     SetPos(pos, orderedIds[idx], startX + (idx - 1) * spacing,
                            pos.at[orderedIds[idx]].y),
                   positions, Len(orderedIds))
  IN Bind(FoldLeft(LAMBDA acc, key : acc \o byName(groupOf(key, TRUE))
                                       \o byName(groupOf(key, FALSE)),
                   <<>>, sortedBranches),
          Spread)

normalizeLevelWidths(positions, layoutInfoMap) ==
  (CHOOSE bound \in {
    LET idsAt(level) ==
          (CHOOSE bound \in {
            [i \in 1..Len(at) |-> at[i].id]
            : at \in {Filter(placed, LAMBDA info : info.level = level)}} : TRUE)
    IN FoldLeft(LAMBDA pos, level :
                  (CHOOSE bound \in {normalizeLevel(ids, pos, layoutInfoMap) : ids \in {idsAt(level)}} : TRUE),
                positions,
                FoldLeft(LAMBDA acc, info : PushNew(acc, info.level), <<>>, placed))
    : placed \in {Filter(layoutInfoMap, LAMBDA info : ~info.isLateral /\ HasPos(positions, info.id))}} : TRUE)

(***************************************************************************)
(* Lateral equipment.                                                      *)
(***************************************************************************)
lateralPairDistance == 280 * Unit

positionLateralEquipment(tree, layoutInfoMap, positions) ==
  LET Lateral(parentPos, pos, lateralId) ==
        LET info == InfoAt(layoutInfoMap, lateralId)
            direction == IF info.branch = "S2" THEN 1 ELSE 0 - 1
        IN IF TypeIsUps(info.type)
             THEN SetPos(pos, lateralId, parentPos.x - lateralPairDistance, parentPos.y)
           ELSE IF HasPos(pos, lateralId)
             THEN SetPos(pos, lateralId, pos.at[lateralId].x, parentPos.y)
           ELSE SetPos(pos, lateralId, parentPos.x + direction * lateralUpsOffset,
                       parentPos.y)
      PerNode(pos, node) ==
        IF Len(tree[node.id].laterals) = 0 \/ ~HasPos(pos, node.id) THEN pos
        ELSE FoldLeft(LAMBDA acc, lateralId : Lateral(pos.at[node.id], acc, lateralId),
                      pos, tree[node.id].laterals)
  IN FoldLeft(PerNode, positions, layoutInfoMap)

(***************************************************************************)
(* Collision detection and repair.                                         *)
(***************************************************************************)
\* the overlap record of a colliding pair, or noCollision (null)
noCollision == [horizontal |-> 0 - 1, vertical |-> 0 - 1]

checkCollision(pos1, pos2) ==
  LET horizontalDistance == Abs(pos1.x - pos2.x)
      verticalDistance == Abs(pos1.y - pos2.y)
      minHorizontalDistance == nodeWidth + minimumNodeSpacing
      minVerticalDistance == nodeHeight + 50 * Unit
      horizontalOverlap == minHorizontalDistance - horizontalDistance
      verticalOverlap == minVerticalDistance - verticalDistance
  IN IF horizontalOverlap > 0 /\ Abs(pos1.y - pos2.y) < 10 * Unit
       THEN [horizontal |-> horizontalOverlap, vertical |-> 0]
     ELSE IF horizontalOverlap > 0 /\ verticalOverlap > 0
       THEN [horizontal |-> horizontalOverlap, vertical |-> verticalOverlap]
     ELSE noCollision

findAllCollisions(positions) ==
  LET ids == positions.order
      n == Len(ids)
      \* the inner loop for one i: the colliding pairs (i, j) with j > i, in order of j
      Row(i) ==
        LET js == SelectSeq([j \in 1..n |-> j], LAMBDA j :
                    j > i /\ checkCollision(positions.at[ids[i]], positions.at[ids[j]])
                               # noCollision)
        IN [k \in 1..Len(js) |->
              [node1 |-> ids[i], node2 |-> ids[js[k]],
               overlap |-> checkCollision(positions.at[ids[i]], positions.at[ids[js[k]]])]]
  IN Iterate(LAMBDA acc, i : acc \o Row(i), <<>>, n)

\* String.prototype.localeCompare on equipment ids: the rank of an id
IdRank(id) ==
  CASE id = "C" -> 1
    [] id = "D" -> 2
    [] id = "G" -> 3
    [] id = "M" -> 5
    [] id = "S" -> 20
    [] id = "T" -> 21
    [] id = "U" -> 22
    [] id = "V" -> 23
    [] id = "W" -> 24
    [] OTHER -> IF \E i \in 1..Len(ChainIds) : ChainIds[i] = id
                  THEN 5 + (CHOOSE i \in 1..Len(ChainIds) : ChainIds[i] = id)
                  ELSE 4

\* decideMoveOrder without the rule that keeps a power-storage node anchored
decideMoveOrderByRank(id1, id2, layoutInfoMap) ==
  IF ~HasInfo(layoutInfoMap, id1) \/ ~HasInfo(layoutInfoMap, id2) THEN TRUE
  ELSE
    (CHOOSE bound \in {
      LET info1 == infos[1]
          info2 == infos[2]
          isRoot1 == info1.level = 0
          isRoot2 == info2.level = 0
      IN IF isRoot1 /\ ~isRoot2 THEN FALSE
         ELSE IF ~isRoot1 /\ isRoot2 THEN TRUE
         ELSE IF info1.isLateral # info2.isLateral THEN info1.isLateral
         ELSE IF info1.level # info2.level THEN info1.level > info2.level
         ELSE IF info1.branch # info2.branch THEN info1.branch = "S2"
         ELSE IdRank(id1) > IdRank(id2)
      : infos \in {<<InfoAt(layoutInfoMap, id1), InfoAt(layoutInfoMap, id2)>>}} : TRUE)

decideMoveOrder(id1, id2, layoutInfoMap) ==
  IF ~HasInfo(layoutInfoMap, id1) \/ ~HasInfo(layoutInfoMap, id2) THEN TRUE
  ELSE
    (CHOOSE bound \in {
      LET info1 == infos[1]
          info2 == infos[2]
          node1IsUps == isUPSEquipment(info1.type, info1.name)
          node2IsUps == isUPSEquipment(info2.type, info2.name)
          isRoot1 == info1.level = 0
          isRoot2 == info2.level = 0
      IN IF node1IsUps /\ ~node2IsUps THEN FALSE
         ELSE IF ~node1IsUps /\ node2IsUps THEN TRUE
         ELSE IF isRoot1 /\ ~isRoot2 THEN FALSE
         ELSE IF ~isRoot1 /\ isRoot2 THEN TRUE
         ELSE IF info1.isLateral # info2.isLateral THEN info1.isLateral
         ELSE IF info1.level # info2.level THEN info1.level > info2.level
         ELSE IF info1.branch # info2.branch THEN info1.branch = "S2"
         ELSE IdRank(id1) > IdRank(id2)
      : infos \in {<<InfoAt(layoutInfoMap, id1), InfoAt(layoutInfoMap, id2)>>}} : TRUE)

\* calculateSafePosition with the mover pushed up its column instead of along its row
calculateSafePositionVertical(nodeId, nodePos, collisionPos, overlap, layoutInfoMap) ==
  IF HasInfo(layoutInfoMap, nodeId) /\ InfoAt(layoutInfoMap, nodeId).level = 0 THEN nodePos
  ELSE [x |-> nodePos.x, y |-> nodePos.y - (overlap.horizontal + collisionPadding)]

calculateSafePosition(nodeId, nodePos, collisionPos, overlap, layoutInfoMap) ==
  LET known == HasInfo(layoutInfoMap, nodeId)
      info == InfoAt(layoutInfoMap, nodeId)
      deltaX == overlap.horizontal + collisionPadding
      moveRight == IF known /\ info.isLateral /\ info.direction # ""
                     THEN info.direction = "right"
                   ELSE IF known /\ info.branch = "S2" THEN TRUE
                   ELSE IF known /\ info.branch = "S1" THEN FALSE
                   ELSE nodePos.x > collisionPos.x
  IN IF known /\ info.level = 0 THEN nodePos
     ELSE [x |-> nodePos.x + (IF moveRight THEN deltaX ELSE 0 - deltaX), y |-> nodePos.y]

\* one collision of the forEach of resolveCollisions, applied to [positions, exact]
resolveCollision(st, collision, layoutInfoMap) ==
  LET pos == st.positions
      pos1 == pos.at[collision.node1]
      pos2 == pos.at[collision.node2]
      known == HasInfo(layoutInfoMap, collision.node1)
                 /\ HasInfo(layoutInfoMap, collision.node2)
      info1 == InfoAt(layoutInfoMap, collision.node1)
      info2 == InfoAt(layoutInfoMap, collision.node2)
      canSplitResolution ==
        /\ known
        /\ info1.level = info2.level
        /\ info1.branch # info2.branch
        /\ ~info1.isLateral /\ ~info2.isLateral
      sum == collision.overlap.horizontal + collisionPadding
      shift == sum \div 2
      Split(leftNode, rightNode) ==
        [positions |-> SetPos(SetPos(pos, leftNode, pos.at[leftNode].x - shift,
                                     pos.at[leftNode].y),
                              rightNode, pos.at[rightNode].x + shift, pos.at[rightNode].y),
         exact |-> st.exact /\ sum % 2 = 0]
      Move(moverId, moverPos, otherPos) ==
        (CHOOSE bound \in {
                              [st EXCEPT !.positions = SetPos(pos, moverId, updated.x,
                                                              updated.y)]
          : updated \in {calculateSafePosition(moverId, moverPos, otherPos, collision.overlap,
                                   layoutInfoMap)}} : TRUE)
  IN IF canSplitResolution
       THEN (IF info1.branch = "S1" THEN Split(collision.node1, collision.node2)
             ELSE Split(collision.node2, collision.node1))
       ELSE (CHOOSE bound \in {
                   IF moveFirst THEN Move(collision.node1, pos1, pos2)
                   ELSE Move(collision.node2, pos2, pos1)
              : moveFirst \in {decideMoveOrder(collision.node1, collision.node2, layoutInfoMap)}} : TRUE)

\* returns [positions, exact]: exact is FALSE when a shift lost a remainder
resolveCollisions(collisions, positions, layoutInfoMap) ==
  LET total(c) == c.overlap.horizontal + c.overlap.vertical
  IN FoldLeft(LAMBDA st, collision : resolveCollision(st, collision, layoutInfoMap),
              [positions |-> positions, exact |-> TRUE],
              SortBy(collisions, LAMBDA a, b : total(a) > total(b)))

enforceBranchAnchors(positions, layoutInfoMap, anchorPositions) ==
  LET Clamped(pos, id, info) ==
          LET anchorPos == anchorPositions.at[id]
              isUps == isUPSEquipment(info.type, info.name)
              leftSlack == IF info.isLateral /\ isUps THEN minimumNodeSpacing \div 3
                           ELSE IF info.branch = "S1" THEN (minimumNodeSpacing * 8) \div 10
                           ELSE IF info.branch = "S2" THEN (minimumNodeSpacing * 2) \div 10
                           ELSE minimumNodeSpacing \div 2
              rightSlack == IF info.isLateral /\ isUps
                              THEN Min(12 * Unit, minimumNodeSpacing \div 10)
                            ELSE IF info.branch = "S1" THEN (minimumNodeSpacing * 2) \div 10
                            ELSE IF info.branch = "S2" THEN (minimumNodeSpacing * 8) \div 10
                            ELSE minimumNodeSpacing \div 2
              clampedX == Min(Max(pos.at[id].x, anchorPos.x - leftSlack),
                              anchorPos.x + rightSlack)
          IN SetPos(pos, id, clampedX, pos.at[id].y)
      Clamp(pos, id) ==
        IF ~HasPos(pos, id) \/ ~HasInfo(layoutInfoMap, id) THEN pos
        ELSE (CHOOSE bound \in {Clamped(pos, id, info) : info \in {InfoAt(layoutInfoMap, id)}} : TRUE)
  IN FoldLeft(Clamp, positions, anchorPositions.order)

maxIterations == 10

\* returns [positions, exact]
detectAndResolveCollisions(positions, layoutInfoMap, anchorPositions) ==
  LET \* one iteration of the for loop; once an iteration has returned, the rest do nothing
      Pass(st, iteration) ==
        IF st.returned THEN st
        ELSE
          (CHOOSE bound \in {
            IF Len(collisions) = 0
              THEN [st EXCEPT !.returned = TRUE,
                              !.positions = enforceBranchAnchors(@, layoutInfoMap,
                                                                 anchorPositions)]
            ELSE (CHOOSE bound \in {
                   [positions |-> enforceBranchAnchors(r.positions, layoutInfoMap,
                                                       anchorPositions),
                    exact |-> st.exact /\ r.exact, returned |-> FALSE]
                   : r \in {resolveCollisions(collisions, st.positions, layoutInfoMap)}} : TRUE)
            : collisions \in {findAllCollisions(st.positions)}} : TRUE)
  IN (CHOOSE bound \in {
            [positions |-> IF last.returned THEN last.positions
                           ELSE enforceBranchAnchors(last.positions, layoutInfoMap,
                                                     anchorPositions),
             exact |-> last.exact]
       : last \in {Iterate(Pass, [positions |-> positions, exact |-> TRUE, returned |-> FALSE],
                  maxIterations)}} : TRUE)

\* the pair tightening of one UPS whose first MDS feeder is ups[k]
tightenPair(st, upsId, mdsId) ==
  LET upsPosition == st.positions.at[upsId]
      mdsPosition == st.positions.at[mdsId]
      desiredX == mdsPosition.x - upsMdsPairOffset
      desiredY == mdsPosition.y
      currentDistance == Abs(mdsPosition.x - upsPosition.x)
      alreadyLeft == upsPosition.x < mdsPosition.x
      withinTolerance == \/ Abs(currentDistance - upsMdsPairOffset) <= 6 * Unit
                         \/ Abs(currentDistance - nodeCenterSpacing) <= 6 * Unit
      snappedX == IF Abs(upsPosition.x - mdsPosition.x) > nodeCenterSpacing
                    THEN mdsPosition.x - nodeCenterSpacing ELSE desiredX
      Both(x, y) == [positions |-> SetPos(st.positions, upsId, x, y),
                     anchors |-> SetPos(st.anchors, upsId, x, y)]
  IN IF alreadyLeft /\ withinTolerance
       THEN (IF Abs(upsPosition.y - desiredY) > Unit
               THEN Both(upsPosition.x, desiredY) ELSE st)
     ELSE Both(snappedX, desiredY)

\* returns [positions, anchors]
applyUpsMdsPairTightening(positions, layoutInfoMap, connectionMap, anchorPositions) ==
  LET Tighten(st, info) ==
        IF ~TypeIsUps(info.type) \/ ~HasPos(st.positions, info.id)
             \/ info.id \notin DOMAIN connectionMap
          THEN st
        ELSE
          (CHOOSE bound \in {
            (CHOOSE bound \in {
              IF k = 0 THEN st
              ELSE IF ~HasPos(st.positions, ups[k].id) THEN st
              ELSE tightenPair(st, info.id, ups[k].id)
              : k \in {FindIndex(ups, LAMBDA parent : TypeIsMds(parent.type))}} : TRUE)
            : ups \in {Relations(connectionMap, info.id, "up")}} : TRUE)
  IN FoldLeft(Tighten, [positions |-> positions, anchors |-> anchorPositions], layoutInfoMap)

(***************************************************************************)
(* Final overlap prevention and the MDS/UPS pair pass.                     *)
(***************************************************************************)
\* Math.round of a coordinate, in whole pixels
Round(v) == (2 * v + Unit) \div (2 * Unit)

maxAttempts == 10

ensureNoOverlaps(positions) ==
  LET positionArray == [i \in 1..Len(positions.order) |->
                          [id |-> positions.order[i], pos |-> positions.at[positions.order[i]]]]
      \* the first free x among pos.x + 50, pos.x + 100, ... within maxAttempts attempts
      Try(x, y, used) ==
        LET free == {a \in 1..maxAttempts : <<Round(x + a * 50 * Unit), Round(y)>> \notin used}
            first == CHOOSE a \in free : \A b \in free : a <= b
        IN [found |-> free # {}, x |-> IF free # {} THEN x + first * 50 * Unit ELSE x]
      Fix(st, e) ==
        LET coord == <<Round(e.pos.x), Round(e.pos.y)>>
            t == Try(e.pos.x, e.pos.y, st.usedCoordinates)
        IN IF coord \notin st.usedCoordinates
             THEN [st EXCEPT !.usedCoordinates = @ \cup {coord}]
           ELSE IF t.found
             THEN [positions |-> SetPos(st.positions, e.id, t.x, e.pos.y),
                   usedCoordinates |-> st.usedCoordinates \cup {<<Round(t.x), Round(e.pos.y)>>}]
           ELSE st
  IN FoldLeft(Fix, [positions |-> positions, usedCoordinates |-> {}], positionArray).positions

\* getBranchPath of the pair sort: the branch of the nearest loop group above the MDS
mdsBranchPath(layoutInfoMap, mdsInfo) ==
  LET RECURSIVE Trace(_, _)
      Trace(currentId, level) ==
        IF level >= 6 \/ ~HasInfo(layoutInfoMap, currentId) THEN ""
        ELSE LET currentInfo == InfoAt(layoutInfoMap, currentId)
             IN IF currentInfo.isLoopGroup THEN currentInfo.branch
                ELSE IF currentInfo.parentId = NoId THEN ""
                ELSE Trace(currentInfo.parentId, level + 1)
  IN (CHOOSE bound \in {
                         IF found # "" THEN found ELSE mdsInfo.branch
       : found \in {IF mdsInfo.parentId = NoId THEN "" ELSE Trace(mdsInfo.parentId, 0)}} : TRUE)

pairSpacing == 500 * Unit

\* the pair record of one MDS: the MDS and the last lateral UPS it parents
mdsPair(finalPositions, layoutInfoMap, id) ==
  (CHOOSE bound \in {
    LET upsId == IF Len(ups) = 0 THEN NoId ELSE ups[Len(ups)].id
        hasUpsPos == upsId # NoId /\ HasPos(finalPositions, upsId)
    IN [mdsId |-> id, mdsInfo |-> InfoAt(layoutInfoMap, id),
        upsId |-> IF hasUpsPos THEN upsId ELSE NoId,
        upsY |-> IF hasUpsPos THEN finalPositions.at[upsId].y ELSE 0]
    : ups \in {Filter(layoutInfoMap, LAMBDA upsInfo :
         upsInfo.isLateral /\ TypeIsUps(upsInfo.type) /\ upsInfo.parentId = id)}} : TRUE)

\* the comparator of the pair sort, as "a sorts before b"
mdsPairLess(layoutInfoMap, a, b) ==
  (CHOOSE bound \in {
         IF branches[1] # branches[2] THEN branches[1] = "S1"
         ELSE NameLess(a.mdsInfo.name, b.mdsInfo.name)
    : branches \in {<<mdsBranchPath(layoutInfoMap, a.mdsInfo), mdsBranchPath(layoutInfoMap, b.mdsInfo)>>}} : TRUE)

\* STEP 13 of calculateUpstreamPositions
repositionMdsUpsPairs(finalPositions, layoutInfoMap) ==
  LET Place(mdsPairs, startX, pos, index) ==
        LET pair == mdsPairs[index]
            mdsX == startX + (index - 1) * pairSpacing
            pos1 == SetPos(pos, pair.mdsId, mdsX, pos.at[pair.mdsId].y)
        IN IF pair.upsId = NoId THEN pos1
           ELSE SetPos(pos1, pair.upsId, mdsX - lateralPairDistance, pair.upsY)
      Spread(pos, mdsPairs) ==
        LET totalWidth == (Len(mdsPairs) - 1) * pairSpacing
        IN Iterate(LAMBDA acc, index :
                     Place(mdsPairs, centerX - totalWidth \div 2, acc, index),
                   pos, Len(mdsPairs))
      PerLevel(mdsIds, pos, level) ==
        (CHOOSE bound \in {
          (CHOOSE bound \in {
                                 Spread(pos, mdsPairs)
            : mdsPairs \in {SortBy([i \in 1..Len(ids) |-> mdsPair(finalPositions, layoutInfoMap, ids[i])],
                      LAMBDA a, b : mdsPairLess(layoutInfoMap, a, b))}} : TRUE)
          : ids \in {Filter(mdsIds, LAMBDA id : InfoAt(layoutInfoMap, id).level = level)}} : TRUE)
  IN (CHOOSE bound \in {
       FoldLeft(LAMBDA pos, level : PerLevel(mdsIds, pos, level), finalPositions,
                FoldLeft(LAMBDA acc, id : PushNew(acc, InfoAt(layoutInfoMap, id).level),
                         <<>>, mdsIds))
       : mdsIds \in {Filter(finalPositions.order, LAMBDA id :
            HasInfo(layoutInfoMap, id) /\ TypeIsMds(InfoAt(layoutInfoMap, id).type))}} : TRUE)

(***************************************************************************)
(* calculateUpstreamPositions, by steps.                                   *)
(***************************************************************************)
\* steps 1-6: tree, baselines, spans, initial assignment, normalisation, laterals
initialPositions(selectedEquipment, upstream, layoutInfoMap, tree) ==
  (CHOOSE bound \in {
    (CHOOSE bound \in {
      (CHOOSE bound \in {
        (CHOOSE bound \in {
          positionLateralEquipment(tree, layoutInfoMap, normalized)
          : normalized \in {normalizeLevelWidths(assigned, layoutInfoMap)}} : TRUE)
        : assigned \in {assignPositionsRecursive(selectedEquipment.id, centerX, tree, layoutInfoMap,
                                    spans, NoPositions, {}, metrics).positions}} : TRUE)
      : metrics \in {computeLayoutMetrics(tree, layoutInfoMap)}} : TRUE)
    : spans \in {computeSubtreeSpan(selectedEquipment.id, tree, layoutInfoMap, <<>>, {},
                          loopGroupMemberIdsOf(upstream)).map}} : TRUE)

\* steps 7-10: returns [positions, exact]
repairedPositions(positions, layoutInfoMap, tree, connectionMap) ==
  (CHOOSE bound \in {
    (CHOOSE bound \in {
      (CHOOSE bound \in {
        [positions |-> positionLateralEquipment(tree, layoutInfoMap, second.positions),
         exact |-> first.exact /\ second.exact]
        : second \in {detectAndResolveCollisions(tight.positions, layoutInfoMap, tight.anchors)}} : TRUE)
      : tight \in {applyUpsMdsPairTightening(first.positions, layoutInfoMap, connectionMap, positions)}} : TRUE)
    : first \in {detectAndResolveCollisions(positions, layoutInfoMap, positions)}} : TRUE)

\* steps 12-13
finalisedPositions(positions, layoutInfoMap) ==
  (CHOOSE bound \in {
    repositionMdsUpsPairs(separated, layoutInfoMap)
    : separated \in {ensureNoOverlaps(positions)}} : TRUE)

\* the whole of calculateUpstreamPositions: returns [positions, exact]
calculateUpstreamPositions(upstream, selectedEquipment, connectionMap) ==
  (CHOOSE bound \in {
    (CHOOSE bound \in {
      (CHOOSE bound \in {
        (CHOOSE bound \in {
          [positions |-> finalisedPositions(repaired.positions, layoutInfoMap),
           exact |-> repaired.exact]
          : repaired \in {repairedPositions(placed, layoutInfoMap, tree, connectionMap)}} : TRUE)
        : placed \in {initialPositions(selectedEquipment, upstream, layoutInfoMap, tree)}} : TRUE)
      : tree \in {buildPlacementTree(selectedEquipment, layoutInfoMap, connectionMap)}} : TRUE)
    : layoutInfoMap \in {buildLayoutInfoMap(selectedEquipment,
                          classifyEquipmentForLayout(upstream, connectionMap))}} : TRUE)

(***************************************************************************)
(* Node and edge generation.                                               *)
(***************************************************************************)
\* type.split(':')[0].trim(): the catalogue's type strings carry no colon
TypePrefix(type) == type

Edge(source, target, connectionType) ==
  [source |-> source, target |-> target, connectionType |-> connectionType]

\* hasLoopGroupInPath || hasLoopGroupParent
connectedThroughLoopGroup(eq, upstream, loopGroupMemberIds) ==
  LET viaLoop(pathId) ==
        \/ \E i \in 1..Len(upstream) : upstream[i].id = pathId /\ upstream[i].isLoopGroup
        \/ pathId \in loopGroupMemberIds
  IN \/ \E j \in 1..Len(eq.path) : viaLoop(eq.path[j])
     \/ eq.parentId # NoId /\ viaLoop(eq.parentId)

\* the position an upstream entry is rendered at, or noPosition when it is skipped
noPosition == [x |-> 0, y |-> 0, ok |-> FALSE]

upstreamNodePosition(eq, upstream, upstreamPositions) ==
  LET loopGroupMemberIds == loopGroupMemberIdsOf(upstream)
      hasPos == HasPos(upstreamPositions, eq.id)
      memberPlaced == \E j \in 1..Len(eq.members) : HasPos(upstreamPositions, eq.members[j].id)
      spacing == 380 * Unit
      isFirstLoopGroup == RingNumber(eq.members[1].name) = "01"
      targetX == IF eq.branch = "S1" THEN centerX - spacing \div 2
                 ELSE IF eq.branch = "S2" THEN centerX + spacing \div 2
                 ELSE IF isFirstLoopGroup THEN centerX - spacing \div 2
                 ELSE centerX + spacing \div 2
      pos == IF hasPos THEN upstreamPositions.at[eq.id]
             ELSE [x |-> targetX, y |-> baselineOf(eq.level)]
      \* the first equipment of the same type that is not connected through a loop group
      Reference ==
        FindIndex(upstream, LAMBDA ref :
          /\ ~ref.isLoopGroup /\ ref.id # eq.id
          /\ TypePrefix(ref.type) = TypePrefix(eq.type)
          /\ ~connectedThroughLoopGroup(ref, upstream, loopGroupMemberIds))
      Aligned(k) ==
        IF k > 0 /\ HasPos(upstreamPositions, upstream[k].id)
          THEN upstreamPositions.at[upstream[k].id].y ELSE pos.y
  IN IF ~eq.isLoopGroup /\ eq.id \in loopGroupMemberIds THEN noPosition
     ELSE IF ~hasPos /\ ~(eq.isLoopGroup /\ memberPlaced) THEN noPosition
     ELSE [x |-> pos.x,
           y |-> IF connectedThroughLoopGroup(eq, upstream, loopGroupMemberIds)
                   THEN Bind(Reference, Aligned) ELSE pos.y,
           ok |-> TRUE]

upstreamEdges(eq, edges, selectedEquipment, upstream, upstreamLayoutInfo) ==
  LET info == upstreamLayoutInfo[IndexOfId(upstreamLayoutInfo, eq.id)]
      lateralInfo == info.isLateral /\ info.direction # ""
      withParent == IF eq.parentId # NoId THEN Append(edges, Edge(eq.parentId, eq.id, ""))
                    ELSE edges
      withLateral == IF lateralInfo THEN Append(withParent, Edge(eq.id, info.parentId, ""))
                     ELSE withParent
      Alt(acc, altParent) ==
        LET parentInTree == IndexOfId(upstream, altParent.id) # 0
                              \/ altParent.id = selectedEquipment.id
            existingEdge == \E j \in 1..Len(acc) :
                              \/ acc[j].source = altParent.id /\ acc[j].target = eq.id
                              \/ acc[j].source = eq.id /\ acc[j].target = altParent.id
        IN IF parentInTree /\ ~existingEdge
             THEN Append(acc, Edge(altParent.id, eq.id, altParent.connectionType))
             ELSE acc
  IN FoldLeft(Alt, withLateral, eq.alternateParents)

Node(id, x, y, side) == [id |-> id, x |-> x, y |-> y, side |-> side]

\* the downstream rows: [nodes, edges] appended to the given ones
downstreamNodesAndEdges(nodes, edges, downstream) ==
  LET levels == FoldLeft(LAMBDA acc, eq : PushNew(acc, eq.level), <<>>, downstream)
      Place(levelEquipment, level, st, index) ==
        LET eq == levelEquipment[index]
            totalWidth == Len(levelEquipment) * nodeWidth
                            + (Len(levelEquipment) - 1) * minimumNodeSpacing
            startX == centerX - totalWidth \div 2
            x == startX + (index - 1) * (nodeWidth + minimumNodeSpacing)
            y == centerY + level * levelSpacing
        IN [nodes |-> Append(st.nodes, Node(eq.id, x, y, "downstream")),
            edges |-> IF eq.parentId # NoId
                        THEN Append(st.edges, Edge(eq.parentId, eq.id, ""))
                        ELSE st.edges]
      Row(st, level) ==
        LET levelEquipment == Filter(downstream, LAMBDA eq : eq.level = level)
        IN Iterate(LAMBDA acc, index : Place(levelEquipment, level, acc, index),
                   st, Len(levelEquipment))
  IN FoldLeft(Row, [nodes |-> nodes, edges |-> edges], levels)

\* the edges added for a selected equipment with a bidirectional connection
selectedEdges(nodes, edges, selectedEquipment, connectionMap) ==
  LET ups == Relations(connectionMap, selectedEquipment.id, "up")
      downs == Relations(connectionMap, selectedEquipment.id, "down")
      hasBidirectional == \E i \in 1..Len(ups) : \E j \in 1..Len(downs) : ups[i].id = downs[j].id
      Add(towardsSelected, acc, relation) ==
        LET source == IF towardsSelected THEN relation.id ELSE selectedEquipment.id
            target == IF towardsSelected THEN selectedEquipment.id ELSE relation.id
            hasNode == IndexOfId(nodes, relation.id) # 0
            existingEdge == \E j \in 1..Len(acc) :
                              acc[j].source = source /\ acc[j].target = target
        IN IF hasNode /\ ~existingEdge
             THEN Append(acc, Edge(source, target, relation.connectionType)) ELSE acc
  IN IF hasBidirectional
       THEN (CHOOSE bound \in {
                   FoldLeft(LAMBDA acc, relation : Add(FALSE, acc, relation),
                            withUpstream, downs)
              : withUpstream \in {FoldLeft(LAMBDA acc, relation : Add(TRUE, acc, relation), edges, ups)}} : TRUE)
       ELSE edges

\* the bypass edges from every "-2" UPS to the transformers that list it as a parent
bypassEdges(nodes, edges, selectedEquipment, upstream, downstream) ==
  LET isBypassUps(eq) == TypeIsUps(eq.type) /\ NameIsBypassUps(eq.name)
      fromUpstream == Filter(upstream, isBypassUps)
      bypassUpsEquipment ==
        IF isBypassUps(selectedEquipment) /\ IndexOfId(fromUpstream, selectedEquipment.id) = 0
          THEN Append(fromUpstream, selectedEquipment) ELSE fromUpstream
      allEquipment == upstream \o downstream
      PerUps(acc, upsEq) ==
        LET connectedTransformers ==
              Filter(allEquipment, LAMBDA txEq :
                TypeIsTx(txEq.type) /\ Includes(txEq.parentIds, upsEq.id))
            hits == Filter(connectedTransformers, LAMBDA txEq :
                      IndexOfId(nodes, upsEq.id) # 0 /\ IndexOfId(nodes, txEq.id) # 0)
        IN acc \o [j \in 1..Len(hits) |-> Edge(upsEq.id, hits[j].id, "bypass")]
  IN FoldLeft(PerUps, edges, bypassUpsEquipment)

deduplicateEdges(edges) ==
  LET Keep(uniqueEdges, edge) ==
        LET k == FindIndex(uniqueEdges, LAMBDA e :
                   e.source = edge.source /\ e.target = edge.target)
        IN IF k = 0 THEN Append(uniqueEdges, edge)
           ELSE IF edge.connectionType = "bypass" /\ uniqueEdges[k].connectionType # "bypass"
             THEN [uniqueEdges EXCEPT ![k] = edge]
           ELSE uniqueEdges
  IN FoldLeft(Keep, <<>>, edges)

\* generateNodesAndEdges, given the positions calculateUpstreamPositions returned
generateNodesAndEdges(selectedEquipment, upstream, downstream, connectionMap, upstreamPositions) ==
  LET Up(upstreamLayoutInfo, st, eq) ==
        (CHOOSE bound \in {
          IF ~pos.ok THEN st
          ELSE [nodes |-> Append(st.nodes, Node(eq.id, pos.x, pos.y, "upstream")),
                edges |-> upstreamEdges(eq, st.edges, selectedEquipment, upstream,
                                        upstreamLayoutInfo)]
          : pos \in {upstreamNodePosition(eq, upstream, upstreamPositions)}} : TRUE)
      selectedNode == Node(selectedEquipment.id, centerX, centerY, "selected")
  IN (CHOOSE bound \in {
     (CHOOSE bound \in {
     (CHOOSE bound \in {
     (CHOOSE bound \in {
     (CHOOSE bound \in {
       [nodes |-> down.nodes, edges |-> deduplicateEdges(withBypass)]
       : withBypass \in {bypassEdges(down.nodes, withSelected, selectedEquipment, upstream, downstream)}} : TRUE)
       : withSelected \in {selectedEdges(down.nodes, down.edges, selectedEquipment, connectionMap)}} : TRUE)
       : down \in {downstreamNodesAndEdges(up.nodes, up.edges, downstream)}} : TRUE)
       : up \in {FoldLeft(LAMBDA st, eq : Up(upstreamLayoutInfo, st, eq),
                   [nodes |-> <<selectedNode>>, edges |-> <<>>], upstream)}} : TRUE)
       : upstreamLayoutInfo \in {classifyEquipmentForLayout(upstream, connectionMap)}} : TRUE)

(***************************************************************************)
(* Inputs: the connection records a run reads.                             *)
(***************************************************************************)
selectedEquipmentId == "S"

\* the records an input is drawn from, in the order the store returns them
Cand ==
  <<Rec("M", "S", "S1"), Rec("T", "S", "S2"), Rec("U", "S", "S2"),
    Rec("U", "M", "S1"), Rec("M", "U", "S1"), Rec("V", "M", "S1"), Rec("M", "V", "S1"),
    Rec("C", "S", "S1"), Rec("D", "S", "S2"), Rec("S", "C", "S1"), Rec("G", "C", "S1"),
    Rec("U", "T", "S2"), Rec("G", "U", "S1"), Rec("G", "T", "S1"), Rec("S", "D", "S1"),
    Rec("W", "C", "S1"), Rec("C", "M", "S1"), Rec("D", "M", "S2"),
    Rec("G", "M", "S2")>>

\* the records of Cand at the chosen indices, in Cand's order
Pick(chosen) == SelectSeq(Cand, LAMBDA c : \E i \in chosen : Cand[i] = c)

\* a single-file feeder chain of n records: P01 feeds S, P02 feeds P01, ...
Chain(n) ==
  [i \in 1..n |-> Rec(ChainIds[i], IF i = 1 THEN selectedEquipmentId ELSE ChainIds[i - 1], "S1")]

\* a panel fed over two routes of equal length, one of them through a feeder of the farther
\* member of a ring: P02 feeds P01 (under U, under M) and W (under C, under M); D feeds S
Routes ==
  <<Rec("M", "S", "S1"), Rec("U", "M", "S1"), Rec("C", "M", "S1"), Rec("D", "S", "S2"),
    Rec("W", "C", "S1"), Rec("P02", "W", "S2"), Rec("P01", "U", "S1"), Rec("P02", "P01", "S1")>>

\* Routes, whole or with one record left out
TwoRoutes ==
  {SelectSeq(Routes, LAMBDA c : c # Routes[k]) : k \in 1..Len(Routes)} \cup {Routes}

Inputs ==
  {Pick(chosen) : chosen \in {c \in SUBSET (1..Len(Cand)) : Cardinality(c) <= MaxConn}}
    \cup {Chain(n) : n \in 1..MaxChain}
    \cup TwoRoutes

(***************************************************************************)
(* generatePowerFlowTree: returns [found, upstream, downstream, positions, *)
(* exact, nodes, edges]; found is FALSE when the run throws.               *)
(***************************************************************************)
NoTree ==
  [found |-> FALSE, upstream |-> <<>>, downstream |-> <<>>, positions |-> NoPositions,
   exact |-> TRUE, nodes |-> <<>>, edges |-> <<>>]

\* the part of generatePowerFlowTree after the selected equipment is found
generateFound(equipmentId, selectedEquipment, connectionMap) ==
  LET notSelected(eq) == eq.id # equipmentId
  IN (CHOOSE bound \in {
     (CHOOSE bound \in {
     (CHOOSE bound \in {
     (CHOOSE bound \in {
     (CHOOSE bound \in {
     (CHOOSE bound \in {
     (CHOOSE bound \in {
       [found |-> TRUE, upstream |-> processedUpstream, downstream |-> processedDownstream,
        positions |-> upstreamPositions.positions, exact |-> upstreamPositions.exact,
        nodes |-> rendered.nodes, edges |-> rendered.edges]
       : rendered \in {generateNodesAndEdges(selectedEquipment, processedUpstream, processedDownstream,
                                connectionMap, upstreamPositions.positions)}} : TRUE)
       : upstreamPositions \in {calculateUpstreamPositions(processedUpstream, selectedEquipment, connectionMap)}} : TRUE)
       : processedDownstream \in {processEquipmentForVisualization(filteredDownstream, connectionMap)}} : TRUE)
       : processedUpstream \in {ensureCompleteUpstreamCoverage(selectedEquipment, consolidatedUpstream,
                                         connectionMap)}} : TRUE)
       : consolidatedUpstream \in {processEquipmentForVisualization(filteredUpstream, connectionMap)}} : TRUE)
       : filteredDownstream \in {Filter(traverseDownstream(equipmentId, connectionMap), notSelected)}} : TRUE)
       : filteredUpstream \in {Filter(traverseUpstream(equipmentId, connectionMap), notSelected)}} : TRUE)

\* generatePowerFlowTree without the not-found check: an id in no record gets the tree of
\* an equipment with no relations
generateWithoutLookup(equipmentId, records) ==
  IF findEquipmentInfo(equipmentId, records).id = NoId
    THEN [NoTree EXCEPT !.found = TRUE,
                        !.nodes = <<Node(equipmentId, centerX, centerY, "selected")>>]
    ELSE generateFound(equipmentId, findEquipmentInfo(equipmentId, records),
                       buildConnectionMap(records))

generatePowerFlowTree(equipmentId, records) ==
  (CHOOSE bound \in {
    IF selectedEquipment.id = NoId THEN NoTree
    ELSE (CHOOSE bound \in {
           generateFound(equipmentId, selectedEquipment, connectionMap)
           : connectionMap \in {buildConnectionMap(records)}} : TRUE)
    : selectedEquipment \in {findEquipmentInfo(equipmentId, records)}} : TRUE)

(***************************************************************************)
(* State.                                                                  *)
(***************************************************************************)
VARIABLES
  connections,   \* the connection records of the store
  pc,            \* "start", then "done" or "failed": the run of generatePowerFlowTree
  upstream,      \* processedUpstream of the run
  downstream,    \* processedDownstream of the run
  positions,     \* the positions map calculateUpstreamPositions returned
  exact,         \* no coordinate of positions lost a remainder
  nodes,         \* the nodes returned
  edges,         \* the edges returned
  cache,         \* the node-cache instance: the keys held and their values
  requests,      \* the GET requests of the tree route, by slot
  fetches        \* the fetches of the connection records, by slot

layoutVars == <<connections, pc, upstream, downstream, positions, exact, nodes, edges>>
cacheVars == <<cache, requests, fetches>>
vars == <<connections, pc, upstream, downstream, positions, exact, nodes, edges,
          cache, requests, fetches>>

connectionMapOf == buildConnectionMap(connections)
selectedOf == findEquipmentInfo(selectedEquipmentId, connections)
layoutInfoMapOf ==
  buildLayoutInfoMap(selectedOf, classifyEquipmentForLayout(upstream, connectionMapOf))
placementTreeOf == buildPlacementTree(selectedOf, layoutInfoMapOf, connectionMapOf)

NoRequest == [pc |-> "idle", equipmentId |-> "", status |-> 0, cached |-> FALSE]

\* a slot with no fetch of the connection records under way; outdated is set on a fetch
\* that was under way when the key was invalidated or cleared, and on what it fetched
NoFetch == [pc |-> "idle", warming |-> FALSE, cached |-> FALSE, outdated |-> FALSE]

(***************************************************************************)
(* One run of generatePowerFlowTree on every input.                        *)
(***************************************************************************)
Init ==
  /\ connections \in Inputs
  /\ pc = "start"
  /\ upstream = <<>>
  /\ downstream = <<>>
  /\ positions = NoPositions
  /\ exact = TRUE
  /\ nodes = <<>>
  /\ edges = <<>>
  /\ cache = <<>>
  /\ requests = [r \in 1..MaxReq |-> NoRequest]
  /\ fetches = [r \in 1..MaxReq |-> NoFetch]

\* the selected equipment is in no record: the run throws
NotFound ==
  /\ pc = "start"
  /\ selectedOf.id = NoId
  /\ pc' = "failed"
  /\ UNCHANGED <<connections, upstream, downstream, positions, exact, nodes, edges>>
  /\ UNCHANGED cacheVars

\* the run returns its tree
GenerateTree ==
  /\ pc = "start"
  /\ selectedOf.id # NoId
  /\ \E tree \in {generatePowerFlowTree(selectedEquipmentId, connections)} :
        /\ tree.found
        /\ upstream' = tree.upstream
        /\ downstream' = tree.downstream
        /\ positions' = tree.positions
        /\ exact' = tree.exact
        /\ nodes' = tree.nodes
        /\ edges' = tree.edges
  /\ pc' = "done"
  /\ UNCHANGED connections
  /\ UNCHANGED cacheVars

Next ==
  \/ NotFound
  \/ GenerateTree

Spec == Init /\ [][Next]_vars

(***************************************************************************)
(* The tree route and the cache it shares with the other routes.           *)
(***************************************************************************)
\* the ids a request may name: one in the records, one in no record, none
RequestIds == {selectedEquipmentId, "X", ""}

\* the stores the cache specification starts from
CacheInputs == {Pick({1, 2, 3}), Pick({1, 4, 5}), Chain(2)}

HasKey(key) == \E i \in 1..Len(cache) : cache[i].key = key

\* getCached: the value under key, or NoTree when the key is absent
getCached(key) ==
  IF HasKey(key) THEN cache[CHOOSE i \in 1..Len(cache) : cache[i].key = key].value
  ELSE NoTree

\* setCached: the entry replaces the one under the same key
setCached(entries, key, value) ==
  Append(SelectSeq(entries, LAMBDA e : e.key # key), [key |-> key, value |-> value])

deleteCached(entries, key) == SelectSeq(entries, LAMBDA e : e.key # key)

setCachedTree(entries, key, value) == setCached(entries, key, value)

CacheKey(equipmentId) == "tree-" \o equipmentId

\* CACHE_DEPENDENCIES
CacheDependencies(key) ==
  IF key = "equipment-connections" THEN <<"equipment-list">> ELSE <<>>

\* invalidateTreeCaches only logs: it removes nothing
invalidateTreeCaches(entries) == entries

InitCache ==
  /\ connections \in CacheInputs
  /\ pc = "start"
  /\ upstream = <<>>
  /\ downstream = <<>>
  /\ positions = NoPositions
  /\ exact = TRUE
  /\ nodes = <<>>
  /\ edges = <<>>
  /\ cache = <<>>
  /\ requests = [r \in 1..MaxReq |-> NoRequest]
  /\ fetches = [r \in 1..MaxReq |-> NoFetch]

\* GET is called: it runs to its first await, of context.params
GetArrive(r, equipmentId) ==
  /\ requests[r].pc = "idle"
  /\ requests' = [requests EXCEPT ![r] = [pc |-> "params", equipmentId |-> equipmentId,
                                          status |-> 0, cached |-> FALSE]]
  /\ UNCHANGED cache
  /\ UNCHANGED layoutVars
  /\ UNCHANGED fetches

\* GET resumes: 400 without an id, the cached tree on a hit, and on a miss it calls
\* generatePowerFlowTree and awaits it
GetLookup(r) ==
  /\ requests[r].pc = "params"
  /\ LET equipmentId == requests[r].equipmentId
         cached == getCached(CacheKey(equipmentId))
     IN requests' =
          [requests EXCEPT ![r] =
             IF equipmentId = "" THEN [@ EXCEPT !.pc = "responded", !.status = 400]
             ELSE IF cached.found
               THEN [@ EXCEPT !.pc = "responded", !.status = 200, !.cached = TRUE]
             ELSE [@ EXCEPT !.pc = "generating"]]
  /\ UNCHANGED cache
  /\ UNCHANGED layoutVars
  /\ UNCHANGED fetches

\* GetGenerated with a run that is not a function of its input: a run that finds a tree
\* under its key returns its nodes one pixel to the right
GetGeneratedWarm(r) ==
  /\ requests[r].pc = "generating"
  /\ \E treeData \in {generatePowerFlowTree(requests[r].equipmentId, connections)} :
        IF treeData.found
          THEN /\ cache' = setCachedTree(cache, CacheKey(requests[r].equipmentId),
                              IF HasKey(CacheKey(requests[r].equipmentId))
                                THEN [treeData EXCEPT !.nodes =
                                        [i \in 1..Len(treeData.nodes) |->
                                           [treeData.nodes[i] EXCEPT !.x = @ + Unit]]]
                                ELSE treeData)
               /\ requests' = [requests EXCEPT ![r].pc = "responded", ![r].status = 200]
          ELSE /\ cache' = cache
               /\ requests' = [requests EXCEPT ![r].pc = "responded", ![r].status = 500]
  /\ UNCHANGED layoutVars
  /\ UNCHANGED fetches

\* generatePowerFlowTree settles: the tree is cached and returned, or 500 when it threw
GetGenerated(r) ==
  /\ requests[r].pc = "generating"
  /\ \E treeData \in {generatePowerFlowTree(requests[r].equipmentId, connections)} :
        IF treeData.found
          THEN /\ cache' = setCachedTree(cache, CacheKey(requests[r].equipmentId), treeData)
               /\ requests' = [requests EXCEPT ![r].pc = "responded", ![r].status = 200]
          ELSE /\ cache' = cache
               /\ requests' = [requests EXCEPT ![r].pc = "responded", ![r].status = 500]
  /\ UNCHANGED layoutVars
  /\ UNCHANGED fetches

\* the response is delivered and the slot serves the next request
GetClose(r) ==
  /\ requests[r].pc = "responded"
  /\ requests' = [requests EXCEPT ![r] = NoRequest]
  /\ UNCHANGED cache
  /\ UNCHANGED layoutVars
  /\ UNCHANGED fetches

\* the entry's time to live runs out
Expire(key) ==
  /\ HasKey(key)
  /\ cache' = deleteCached(cache, key)
  /\ UNCHANGED requests
  /\ UNCHANGED layoutVars
  /\ UNCHANGED fetches

\* the cache key of the connections route
ConnectionsKey == "equipment-connections"

\* every fetch under way now began before the invalidation that is completing
Outdate(slots) ==
  [r \in DOMAIN slots |-> IF slots[r].pc = "fetching" THEN [slots[r] EXCEPT !.outdated = TRUE]
                          ELSE slots[r]]

\* the entries invalidateCacheKey leaves: the key, its dependents, and what
\* invalidateTreeCaches removes for a base-data key
invalidatedEntries(entries, key) ==
  LET dropped == FoldLeft(deleteCached, deleteCached(entries, key), CacheDependencies(key))
  IN IF key \in {"equipment-connections", "equipment-list"}
       THEN invalidateTreeCaches(dropped) ELSE dropped

invalidateCacheKey(key) ==
  /\ cache' = invalidatedEntries(cache, key)
  /\ fetches' = IF key = ConnectionsKey THEN Outdate(fetches) ELSE fetches
  /\ UNCHANGED requests
  /\ UNCHANGED layoutVars

invalidateAllCaches ==
  /\ cache' = <<>>
  /\ fetches' = Outdate(fetches)
  /\ UNCHANGED requests
  /\ UNCHANGED layoutVars

(***************************************************************************)
(* The connections route, the cache warmer and the fetch they share.       *)
(***************************************************************************)
\* what a settled fetch stores under the key
Fetched(outdated) == [found |-> TRUE, outdated |-> outdated]

\* GET of the connections route up to its await: the cached records on a hit, and on a
\* miss the call of getEquipmentConnections
GetConnections(r) ==
  /\ fetches[r].pc = "idle"
  /\ LET cached == getCached(ConnectionsKey)
     IN fetches' =
          [fetches EXCEPT ![r] =
             IF cached.found
               THEN [pc |-> "responded", warming |-> FALSE, cached |-> TRUE,
                     outdated |-> cached.outdated]
               ELSE [pc |-> "fetching", warming |-> FALSE, cached |-> FALSE,
                     outdated |-> FALSE]]
  /\ UNCHANGED <<cache, requests>>
  /\ UNCHANGED layoutVars

\* warmCache for the key: on a miss it calls the fetcher and awaits it
warmCache(r) ==
  /\ fetches[r].pc = "idle"
  /\ ~getCached(ConnectionsKey).found
  /\ fetches' = [fetches EXCEPT ![r] = [pc |-> "fetching", warming |-> TRUE,
                                        cached |-> FALSE, outdated |-> FALSE]]
  /\ UNCHANGED <<cache, requests>>
  /\ UNCHANGED layoutVars

\* the fetch settles: what it read is stored under the key, whatever happened to the key
\* while it was under way
FetchSettled(r) ==
  /\ fetches[r].pc = "fetching"
  /\ cache' = setCached(cache, ConnectionsKey, Fetched(fetches[r].outdated))
  /\ fetches' = [fetches EXCEPT ![r] = IF @.warming THEN NoFetch
                                       ELSE [@ EXCEPT !.pc = "responded"]]
  /\ UNCHANGED requests
  /\ UNCHANGED layoutVars

\* the fetch throws: nothing is stored
FetchFailed(r) ==
  /\ fetches[r].pc = "fetching"
  /\ fetches' = [fetches EXCEPT ![r] = IF @.warming THEN NoFetch
                                       ELSE [@ EXCEPT !.pc = "responded"]]
  /\ UNCHANGED <<cache, requests>>
  /\ UNCHANGED layoutVars

\* the response of the connections route is delivered
CloseConnections(r) ==
  /\ fetches[r].pc = "responded"
  /\ fetches' = [fetches EXCEPT ![r] = NoFetch]
  /\ UNCHANGED <<cache, requests>>
  /\ UNCHANGED layoutVars

\* POST of the connections route: the key is set to null, which a lookup takes for a miss
PostConnections ==
  /\ cache' = setCached(cache, ConnectionsKey, NoTree)
  /\ fetches' = Outdate(fetches)
  /\ UNCHANGED requests
  /\ UNCHANGED layoutVars

NextFetch ==
  \/ \E r \in 1..MaxReq : GetConnections(r)
  \/ \E r \in 1..MaxReq : warmCache(r)
  \/ \E r \in 1..MaxReq : FetchSettled(r)
  \/ \E r \in 1..MaxReq : FetchFailed(r)
  \/ \E r \in 1..MaxReq : CloseConnections(r)
  \/ PostConnections
  \/ \E key \in {ConnectionsKey} : getCached(key).found /\ Expire(key)
  \/ \E key \in {"equipment-connections", "equipment-list"} : invalidateCacheKey(key)
  \/ invalidateAllCaches

SpecFetch == InitCache /\ [][NextFetch]_vars

NextCache ==
  \/ \E r \in 1..MaxReq, equipmentId \in RequestIds : GetArrive(r, equipmentId)
  \/ \E r \in 1..MaxReq : GetLookup(r)
  \/ \E r \in 1..MaxReq : GetGenerated(r)
  \/ \E r \in 1..MaxReq : GetClose(r)
  \/ \E key \in {CacheKey(selectedEquipmentId)} : Expire(key)
  \/ \E key \in {"equipment-connections", "equipment-list"} : invalidateCacheKey(key)
  \/ invalidateAllCaches

SpecCache == InitCache /\ [][NextCache]_vars

(***************************************************************************)
(* Properties of a finished layout run.                                    *)
(***************************************************************************)
Done == pc = "done"

\* nodes a and b are clear of each other: their centres are nodeWidth + minimumNodeSpacing
\* apart horizontally, or nodeHeight + 50 apart vertically
Apart(a, b) ==
  \/ Abs(a.x - b.x) >= nodeWidth + minimumNodeSpacing
  \/ Abs(a.y - b.y) >= nodeHeight + 50 * Unit

\* C1: after a layout run completes, every two distinct rendered nodes are separated
\* horizontally by at least the node width plus the minimum gap, or vertically by at
\* least the node height plus the gap; no collision remains in the final positions.
C1_NoResidualCollision ==
  Done => \A i, j \in 1..Len(nodes) :
            nodes[i].id # nodes[j].id => Apart(nodes[i], nodes[j])

\* the row of a rendered node: the side of the diagram it is on and its level there
LevelOf(node) ==
  IF node.side = "selected" THEN 0
  ELSE IF node.side = "upstream" THEN upstream[IndexOfId(upstream, node.id)].level
  ELSE downstream[IndexOfId(downstream, node.id)].level

\* the rendered node is the representative of a loop group
IsLoopRep(node) ==
  node.side = "upstream" /\ upstream[IndexOfId(upstream, node.id)].isLoopGroup

\* two y values closer than the 10 px within which checkCollision takes two nodes to be
\* on one row
SameRow(y1, y2) == Abs(y1 - y2) < 10 * Unit

\* a power-storage node paired with a distribution switch: placed as a lateral of its
\* parent, or fed by a switch whose y the pair tightening gives it
PairedStorage(node) ==
  /\ node.side = "upstream"
  /\ \/ InfoAt(layoutInfoMapOf, node.id).isLateral
     \/ /\ TypeIsUps(EqType(node.id))
        /\ \E r \in Range(Relations(connectionMapOf, node.id, "up")) : TypeIsMds(r.type)

\* an upstream node whose y is taken from the first peer of its type
ReachedThroughLoopGroup(node) ==
  /\ node.side = "upstream"
  /\ connectedThroughLoopGroup(upstream[IndexOfId(upstream, node.id)], upstream,
                               loopGroupMemberIdsOf(upstream))

\* the nodes of one row that the level baseline alone places
BaselinePlaced(node) ==
  ~IsLoopRep(node) /\ ~PairedStorage(node) /\ ~ReachedThroughLoopGroup(node)

DetectedGroups ==
  {eq \in Range(upstream) \cup Range(downstream) : eq.isLoopGroup /\ Len(eq.members) >= 2}

\* C3: for every detected ring or dual-source group of at least two members, the rendered
\* nodes hold exactly one node for the group, its representative, and no node whose id is
\* the id of a member, in the upstream or the downstream part of the diagram.
C3_GroupRendersOnce ==
  Done => \A group \in DetectedGroups :
            /\ Cardinality({i \in 1..Len(nodes) : nodes[i].id = group.id}) = 1
            /\ \A m \in Range(group.members) : \A i \in 1..Len(nodes) : nodes[i].id # m.id

\* the equipment within k upstream hops of the selected equipment in the records
RECURSIVE WithinHops(_)
WithinHops(k) ==
  IF k = 0 THEN {selectedEquipmentId}
  ELSE LET near == WithinHops(k - 1)
       IN near \cup {c.from : c \in {d \in Range(connections) : d.to \in near}}

\* the equipment upstream of the selected equipment whose every upstream path from it is
\* longer than maxTraversalLevel hops
BeyondCeiling == WithinHops(Len(connections)) \ WithinHops(maxTraversalLevel)

\* C4: equipment whose every upstream path from the selected equipment is longer than 10
\* hops never appears in the result: not in the upstream list, not among the nodes, and
\* not as an endpoint of an edge.
C4_CeilingExcludes ==
  Done => \A id \in BeyondCeiling :
            /\ \A i \in 1..Len(upstream) : upstream[i].id # id
            /\ \A i \in 1..Len(nodes) : nodes[i].id # id
            /\ \A i \in 1..Len(edges) : edges[i].source # id /\ edges[i].target # id

\* C6: in every result no two nodes have the same id, also when an equipment is reachable
\* both upstream and downstream of the selection and when the selected equipment lies on
\* a cycle.
C6_NodeIdsUnique ==
  Done => \A i, j \in 1..Len(nodes) : i # j => nodes[i].id # nodes[j].id

\* C7: in the final layout no two rendered nodes have the same (x, y) position, also after
\* the MDS/UPS pair repositioning and the fallback placement of loop-group
\* representatives.
C7_PositionsDistinct ==
  Done => \A i, j \in 1..Len(nodes) :
            i # j => ~(nodes[i].x = nodes[j].x /\ nodes[i].y = nodes[j].y)

\* the equipment upstream of the selected equipment in the records, itself included
UpstreamGraph == WithinHops(Len(connections))

\* the records classified bypass that leave a power-storage node and lie in the upstream
\* graph of the selected equipment
BypassRelations ==
  {c \in Range(connections) :
     /\ classifyConnectionType(c) = "bypass"
     /\ TypeIsUps(EqType(c.from))
     /\ c.to \in UpstreamGraph}

\* the records that feed the equipment id over a primary relation
PrimaryFeeds(id) == {d \in Range(connections) : d.to = id /\ d.sourceNumber = "S1"}

\* the returned upstream list holds the feeder of the record, with the fed equipment among
\* its parent ids
Retrievable(d) ==
  \E i \in 1..Len(upstream) : upstream[i].id = d.from /\ Includes(upstream[i].parentIds, d.to)

\* C8: whenever the upstream graph of the selected equipment holds a bypass relation from
\* a power-storage node A into an equipment B, every equipment that feeds A or B over a
\* primary (S1) relation is in the returned upstream list, with A or B respectively among
\* its parent ids.
C8_BypassKeepsPrimaryAncestry ==
  Done => \A c \in BypassRelations :
            \A d \in PrimaryFeeds(c.from) \cup PrimaryFeeds(c.to) : Retrievable(d)

\* a finished run over a bypass relation whose two ends both have a primary feeder, one of
\* them a ring member that the loop consolidation took out of the list
C8_Witness ==
  /\ Done
  /\ \E c \in BypassRelations :
       /\ PrimaryFeeds(c.from) # {}
       /\ \E d \in PrimaryFeeds(c.to) : RingNumber(EqName(d.from)) # ""
  /\ \E i \in 1..Len(upstream) : upstream[i].isLoopGroup

\* the layout classification of the returned upstream list
UpstreamLayoutInfo == classifyEquipmentForLayout(upstream, connectionMapOf)

\* C9: a power-storage (UPS) upstream equipment whose canonical parent is a distribution
\* switch (MDS) is classified lateral, also when the records hold no relation from that
\* switch back into the UPS.
C9_StorageUnderSwitchIsLateral ==
  Done => \A i \in 1..Len(UpstreamLayoutInfo) :
            LET info == UpstreamLayoutInfo[i]
            IN (/\ TypeIsUps(info.type)
                /\ info.parentId # NoId
                /\ TypeIsMds(EqType(info.parentId)))
                 => info.isLateral

\* C10: every power-storage node flagged lateral ends, in the final layout, at exactly its
\* parent's final y and at x equal to its parent's final x minus the fixed pairing
\* distance, whatever the collision, overlap and pair-repositioning passes do to either
\* node.
C10_LateralStorageBesideParent ==
  Done => \A k \in 1..Len(UpstreamLayoutInfo) :
            LET info == UpstreamLayoutInfo[k]
            IN (info.isLateral /\ TypeIsUps(info.type)) =>
                 \A i, j \in 1..Len(nodes) :
                   (/\ nodes[i].id = info.id /\ nodes[i].side = "upstream"
                    /\ nodes[j].id = info.parentId /\ nodes[j].side # "downstream")
                     => /\ nodes[i].y = nodes[j].y
                        /\ nodes[i].x = nodes[j].x - lateralPairDistance

\* the node rendered for the selected equipment
SelectedNode == nodes[CHOOSE i \in 1..Len(nodes) : nodes[i].side = "selected"]

\* the equipment that feeds the selected equipment directly over the source src
DirectFeeders(src) ==
  {c.from : c \in {d \in Range(connections) :
                     d.to = selectedEquipmentId /\ d.sourceNumber = src}}

\* C11: whenever the selected equipment has at least one primary (S1) and at least one
\* secondary (S2) direct feeder, every primary direct feeder is rendered strictly left of
\* the selected node, every secondary direct feeder strictly right of it, and all of them
\* at the same y.
C11_FeedersFlankSelected ==
  (Done /\ DirectFeeders("S1") # {} /\ DirectFeeders("S2") # {}) =>
    \A i \in 1..Len(nodes) :
      nodes[i].side = "upstream" =>
        /\ nodes[i].id \in DirectFeeders("S1") =>
             nodes[i].x < SelectedNode.x /\ nodes[i].y = baselineOf(1)
        /\ nodes[i].id \in DirectFeeders("S2") =>
             nodes[i].x > SelectedNode.x /\ nodes[i].y = baselineOf(1)

\* the upstream list as the loop processing returns it, before the coverage completer
ConsolidatedUpstream ==
  processEquipmentForVisualization(
    Filter(traverseUpstream(selectedEquipmentId, connectionMapOf),
           LAMBDA eq : eq.id # selectedEquipmentId),
    connectionMapOf)

\* the loop-group representatives the loop processing returned, upstream and downstream
LoopReps == {eq \in Range(ConsolidatedUpstream) \cup Range(downstream) : eq.isLoopGroup}

\* the members of a representative at the minimum level among its members
NearestMembers(rep) ==
  {m \in Range(rep.members) : \A n \in Range(rep.members) : m.level <= n.level}

AlignmentKey(node) == getTypeAlignmentKey(InfoAt(layoutInfoMapOf, node.id), layoutInfoMapOf)

\* C13: in the final layout all rendered nodes sharing a type-alignment key (the same type
\* family) have one identical y, even when they were reached through loops of different
\* depth.
C13_FamilySharesY ==
  Done => \A i, j \in 1..Len(nodes) :
            (/\ nodes[i].side # "downstream" /\ nodes[j].side # "downstream"
             /\ HasInfo(layoutInfoMapOf, nodes[i].id) /\ HasInfo(layoutInfoMapOf, nodes[j].id)
             /\ AlignmentKey(nodes[i]) = AlignmentKey(nodes[j]))
              => nodes[i].y = nodes[j].y

\* the ids whose canonical parent chain reaches the selected equipment within k steps
\* through entries of the returned upstream list
RECURSIVE Anchored(_)
Anchored(k) ==
  IF k = 0 THEN {selectedEquipmentId}
  ELSE LET near == Anchored(k - 1)
       IN near \cup {eq.id : eq \in {e \in Range(upstream) : e.parentId \in near}}

WalkedUpstream == traverseUpstream(selectedEquipmentId, connectionMapOf)

\* the walk took a bypass-classified relation from p[k] into p[k + 1]
BypassStep(p, k) ==
  \E r \in Range(Relations(connectionMapOf, p[k], "up")) :
    r.id = p[k + 1] /\ r.connectionType = "bypass"

\* the walker expanded the entry e: every relation upstream of it has an entry reached
\* over the path of e
Expanded(e) ==
  \A r \in Range(Relations(connectionMapOf, e.id, "up")) :
    \E f \in Range(WalkedUpstream) : f.id = r.id /\ f.path = Append(e.path, e.id)

\* C17: when the walker follows a bypass-classified relation, the recursion into that
\* neighbour starts from an empty visited set, so every equipment on the bypass branch
\* below the depth ceiling is expanded again unless it was visited after the bypass
\* relation, also when its id was visited earlier on the current path.
C17_BypassStartsFresh ==
  Done => \A e \in Range(WalkedUpstream) :
            LET p == Append(e.path, e.id)
            IN \A k \in 1..(Len(p) - 1) :
                 (/\ BypassStep(p, k)
                  /\ \A j \in (k + 1)..(Len(p) - 1) : p[j] # e.id
                  /\ e.level < maxTraversalLevel)
                   => Expanded(e)

\* C18: for every finite connection graph that holds the selected equipment, including
\* graphs with cycles, bypass rings and cycles that reach the placement tree, a layout run
\* terminates and returns a result without raising an error.
C18_RunReturns ==
  /\ pc = "failed" => selectedOf.id = NoId
  /\ (pc = "start" /\ selectedOf.id # NoId) =>
       generatePowerFlowTree(selectedEquipmentId, connections).found
  /\ Done =>
       /\ coverageWalk(selectedOf, ConsolidatedUpstream, connectionMapOf).queue = <<>>
       /\ placementWalk(selectedOf, layoutInfoMapOf, connectionMapOf).queue = <<>>
       /\ \E i \in 1..Len(nodes) : nodes[i].side = "selected"

\* a finished run over a bypass ring through the selected equipment: the walk met the
\* selected equipment again upstream of itself
C18_Witness ==
  /\ Done
  /\ BypassRelations # {}
  /\ \E e \in Range(WalkedUpstream) : e.id = selectedEquipmentId
  /\ \E i \in 1..Len(nodes) : nodes[i].side = "upstream" /\ nodes[i].id = selectedEquipmentId

\* the ids of the upstream entries the layout classified lateral
LateralIds == {layoutInfoMapOf[i].id : i \in {j \in 1..Len(layoutInfoMapOf) : layoutInfoMapOf[j].isLateral}}

\* the ids reached from id over one or more upstream relations of the connection map
RECURSIVE FeedersFrom(_, _)
FeedersFrom(frontier, seen) ==
  LET next == {r.id : r \in UNION {Range(Relations(connectionMapOf, id, "up")) : id \in frontier}} \ seen
  IN IF next = {} THEN seen ELSE FeedersFrom(next, seen \cup next)

UpstreamAncestors(id) == FeedersFrom({id}, {})

\* C19: every upstream ancestor of a lateral node that is present in the upstream list
\* receives a position and is rendered, even if it is reachable from the selected
\* equipment only through that lateral node.
C19_LateralAncestorsRendered ==
  Done => \A lateral \in LateralIds : \A a \in UpstreamAncestors(lateral) :
            (a # selectedEquipmentId /\ \E i \in 1..Len(upstream) : upstream[i].id = a) =>
              /\ HasPos(positions, a)
              /\ \E i \in 1..Len(nodes) : nodes[i].id = a /\ nodes[i].side = "upstream"

\* the places of the placement tree where id is listed as a child: parent, group, index
ChildSlots(id) ==
  {<<parent, group, i>> \in (DOMAIN placementTreeOf) \X {"s1", "s2", "laterals"} \X (1..Len(upstream)) :
     /\ i <= Len(placementTreeOf[parent][group])
     /\ placementTreeOf[parent][group][i] = id}

\* C20: the placement tree is a strict tree: every node other than the root appears in
\* exactly one child group of exactly one parent, no id is listed twice in any child
\* group, and the root is no node's child.
C20_PlacementIsStrictTree ==
  Done => \A id \in DOMAIN placementTreeOf :
            Cardinality(ChildSlots(id)) = IF id = selectedEquipmentId THEN 0 ELSE 1

\* the walker's occurrences the consolidator is given: the selected equipment left out
FilteredUpstream == Filter(WalkedUpstream, LAMBDA eq : eq.id # selectedEquipmentId)

\* the list after the deduplication loop, before loop processing
Deduplicated == deduplicate(FilteredUpstream, connectionMapOf)

\* the branch label the deduplication loop reads from one occurrence
BranchLabel(eq) == Or3(resolveBranchFromPath(eq, connectionMapOf), eq.branch, eq.sourceNumber)

\* the occurrences of id at the lowest level the walker met it on
NearestOccurrences(id) ==
  {eq \in Range(FilteredUpstream) :
     /\ eq.id = id
     /\ \A other \in Range(FilteredUpstream) : other.id = id => eq.level <= other.level}

\* C21: for equipment that is not a convergence type, consolidation yields the minimum
\* level over all of its walker occurrences with the parent of a minimum-level occurrence
\* as canonical parent, and when minimum-level occurrences carry different branch labels
\* the canonical branch is secondary (S2), whatever the order of the occurrences.
C21_LowestLevelTiesToSecondary ==
  Done => \A e \in Range(Deduplicated) :
            ~TypeIsConvergence(e.type) =>
              /\ \E eq \in NearestOccurrences(e.id) : e.level = eq.level /\ e.parentId = eq.parentId
              /\ {BranchLabel(eq) : eq \in NearestOccurrences(e.id)} = {"S1", "S2"} => e.branch = "S2"

PathsTo(id) == {k \in 1..Len(WalkedUpstream) : WalkedUpstream[k].id = id}

\* the source label of the first hop of the occurrence's path: the relation into the
\* selected equipment the path starts with
FirstHopLabel(eq) ==
  LET first == IF Len(eq.path) = 1 THEN eq.id ELSE eq.path[2]
      ups == Relations(connectionMapOf, selectedEquipmentId, "up")
  IN ups[FindIndex(ups, LAMBDA r : r.id = first)].sourceNumber

\* C23: for an upstream equipment reached by exactly one path, its branch label in the
\* result equals the source label of the first hop of that path from the selected
\* equipment, whatever the source labels of the later hops.
C23_BranchIsFirstHop ==
  Done => \A i \in 1..Len(upstream) :
            Cardinality(PathsTo(upstream[i].id)) = 1 =>
              \A k \in PathsTo(upstream[i].id) :
                upstream[i].branch = FirstHopLabel(WalkedUpstream[k])

\* C24: after loop processing, every equipment whose canonical parent is in the processed
\* list has level exactly parent.level + 1, including equipment further up the chain from
\* a rewired child.
C24_LevelIsParentPlusOne ==
  Done => \A i, j \in 1..Len(ConsolidatedUpstream) :
            ConsolidatedUpstream[i].parentId = ConsolidatedUpstream[j].id =>
              ConsolidatedUpstream[i].level = ConsolidatedUpstream[j].level + 1

\* the positions the first collision pass of the run is given: steps 1-6
PlacedPositions == initialPositions(selectedOf, upstream, layoutInfoMapOf, placementTreeOf)

\* the collisions that pass finds, and the positions it leaves
FirstCollisions == findAllCollisions(PlacedPositions)
FirstResolved == resolveCollisions(FirstCollisions, PlacedPositions, layoutInfoMapOf).positions

\* id is a power-storage node for the collision rules
IsUpsNode(id) ==
  /\ HasInfo(layoutInfoMapOf, id)
  /\ isUPSEquipment(InfoAt(layoutInfoMapOf, id).type, InfoAt(layoutInfoMapOf, id).name)

\* C25: during collision resolution the position of a power-storage (UPS) node is never
\* changed; in every collision involving a UPS node, only the other node moves.
C25_UpsNeverMoves ==
  Done => \A k \in 1..Len(PlacedPositions.order) :
            IsUpsNode(PlacedPositions.order[k]) =>
              FirstResolved.at[PlacedPositions.order[k]] = PlacedPositions.at[PlacedPositions.order[k]]

\* the collisions of that pass in the order resolveCollisions takes them
SortedCollisions ==
  SortBy(FirstCollisions, LAMBDA a, b : a.overlap.horizontal + a.overlap.vertical
                                          > b.overlap.horizontal + b.overlap.vertical)

\* the positions before and after the i-th collision of the pass is resolved
BeforeCollision(i) ==
  FoldLeft(LAMBDA st, collision : resolveCollision(st, collision, layoutInfoMapOf),
           [positions |-> PlacedPositions, exact |-> TRUE],
           SubSeq(SortedCollisions, 1, i - 1)).positions

AfterCollision(i) ==
  resolveCollision([positions |-> BeforeCollision(i), exact |-> TRUE], SortedCollisions[i],
                   layoutInfoMapOf).positions

\* the collision is resolved by moving both nodes apart
SplitApplies(collision) ==
  LET info1 == InfoAt(layoutInfoMapOf, collision.node1)
      info2 == InfoAt(layoutInfoMapOf, collision.node2)
  IN /\ info1.level = info2.level
     /\ info1.branch # info2.branch
     /\ ~info1.isLateral /\ ~info2.isLateral

\* the collision is between the power-storage node ups and a node that is none, and is
\* not resolved by the split
UpsMeetsOther(collision, ups, other) ==
  /\ {collision.node1, collision.node2} = {ups, other}
  /\ IsUpsNode(ups) /\ ~IsUpsNode(other)
  /\ ~SplitApplies(collision)

\* C25 (amended): in a collision between a power-storage (UPS) node and a node that is
\* none, resolved by moving one node, the UPS node keeps its position and the other node
\* is the one moved; a UPS node is moved only by a collision with another UPS node or by
\* the split of a same-level pair on different branches.
C25_UpsYieldsToNoOther ==
  Done => \A i \in 1..Len(SortedCollisions) : \A ups, other \in Range(PlacedPositions.order) :
            UpsMeetsOther(SortedCollisions[i], ups, other) =>
              /\ AfterCollision(i).at[ups] = BeforeCollision(i).at[ups]
              /\ \A id \in Range(PlacedPositions.order) \ {other} :
                    AfterCollision(i).at[id] = BeforeCollision(i).at[id]

\* a finished run whose first pass resolved a collision of a UPS node with its
\* distribution switch by moving the switch
C25_Witness ==
  /\ Done
  /\ \E i \in 1..Len(SortedCollisions) : \E ups, other \in Range(PlacedPositions.order) :
       /\ UpsMeetsOther(SortedCollisions[i], ups, other)
       /\ AfterCollision(i).at[other] # BeforeCollision(i).at[other]

\* the rendered nodes of id on the upstream side of the diagram, the selected node included
UpstreamSideNodes(id) ==
  {nodes[i] : i \in {j \in 1..Len(nodes) : nodes[j].id = id /\ nodes[j].side # "downstream"}}

\* C26: if a node has exactly one non-lateral upstream child (one branch with a single
\* child and no sibling branch), then in the final layout that child has the same x as
\* its parent.
C26_OnlyChildUnderParent ==
  Done => \A parent \in DOMAIN placementTreeOf :
            Len(placementTreeOf[parent].s1 \o placementTreeOf[parent].s2) = 1 =>
              \A p \in UpstreamSideNodes(parent) :
                \A c \in UpstreamSideNodes((placementTreeOf[parent].s1 \o placementTreeOf[parent].s2)[1]) :
                  c.x = p.x

\* the ids of the returned nodes
NodeIds == {nodes[i].id : i \in 1..Len(nodes)}

\* C29: every edge in the result has both its source and its target among the ids of the
\* result's nodes; relations of suppressed ring members are carried by edges attached to
\* the representative rather than by edges pointing at member ids.
C29_EdgesJoinNodes ==
  Done => \A i \in 1..Len(edges) : edges[i].source \in NodeIds /\ edges[i].target \in NodeIds

\* C30: the selected equipment's id never appears in the returned upstream or downstream
\* equipment lists, even when the selected equipment lies on a cycle of the connection
\* graph.
C30_SelectedNotListed ==
  Done => /\ \A i \in 1..Len(upstream) : upstream[i].id # selectedEquipmentId
          /\ \A i \in 1..Len(downstream) : downstream[i].id # selectedEquipmentId

(***************************************************************************)
(* Properties of the tree route and its cache.                             *)
(***************************************************************************)
\* the request in slot r is between its cache miss and its cache write
Computing(r) == requests[r].pc = "generating"

\* C5: for any cache key at most one tree computation is in progress at any time; a second
\* request for the same equipment id arriving while the key is not cached does not start
\* its own computation while the first is still running.
C5_OneComputationPerKey ==
  \A r1, r2 \in 1..MaxReq :
    (r1 # r2 /\ Computing(r1) /\ Computing(r2))
      => CacheKey(requests[r1].equipmentId) # CacheKey(requests[r2].equipmentId)

\* the equipment id occurs in no connection record
Unknown(equipmentId) ==
  equipmentId # "" /\ findEquipmentInfo(equipmentId, connections).id = NoId

\* C15: if the selected id occurs in no connection record, generation aborts with a
\* not-found error before any traversal or layout pass runs, no partial node/edge result is
\* returned, and nothing is written to the tree cache for that id.
C15_UnknownIdLeavesNoTrace ==
  \A equipmentId \in RequestIds :
    Unknown(equipmentId) =>
      /\ generatePowerFlowTree(equipmentId, connections) = NoTree
      /\ ~HasKey(CacheKey(equipmentId))
      /\ \A r \in 1..MaxReq :
           (requests[r].equipmentId = equipmentId /\ requests[r].pc = "responded")
             => requests[r].status = 500 /\ ~requests[r].cached

\* a request for an id in no record has been answered while the tree of a known id is cached
C15_Witness ==
  /\ \E r \in 1..MaxReq :
       /\ Unknown(requests[r].equipmentId)
       /\ requests[r].pc = "responded"
  /\ HasKey(CacheKey(selectedEquipmentId))

TreeKeys == {CacheKey(equipmentId) : equipmentId \in RequestIds}

\* C27: after invalidateCacheKey('equipment-connections') or
\* invalidateCacheKey('equipment-list') returns, no 'tree-<id>' cache entry that was stored
\* before the invalidation is returned by a later tree request: whenever it is called, the
\* call leaves no tree entry for a lookup to find.
C27_InvalidationDropsTrees ==
  \A key \in {"equipment-connections", "equipment-list"} :
    \A e \in Range(invalidatedEntries(cache, key)) : e.key \notin TreeKeys

\* C28: once an invalidation or clear of a cache key has completed, no later read of that
\* key returns data that was fetched before the invalidation, even if a request that began
\* fetching before the invalidation finishes and stores its result after it.
C28_NoReadOfOutdated ==
  \A r \in 1..MaxReq :
    (fetches[r].pc = "responded" /\ fetches[r].cached) => ~fetches[r].outdated

====
